---- MODULE Spec2Model ----
(***************************************************************************)
(* A model of the SimpleRDBMS engine of src/rdbms.py: the catalog of       *)
(* tables, their rows and indexes, the pickled snapshot of every table,    *)
(* and the transaction flag and log, driven by execute_sql.                *)
(*                                                                         *)
(* Every piece of SQL text (a name, a literal, a clause) is a sequence of  *)
(* one-character strings, so that the string operations of the source      *)
(* (strip, split, isdigit, upper, substring search) are computed and not   *)
(* assumed.  A statement is the record of the groups its regular           *)
(* expression captures.                                                    *)
(***************************************************************************)
EXTENDS Integers, Sequences, FiniteSets, TLC

VARIABLES tables, disk, in_transaction, transaction_log, stmt, result

vars == <<tables, disk, in_transaction, transaction_log, stmt, result>>

----------------------------------------------------------------------------
(* Python string operations on texts *)

Digits == <<"0", "1", "2", "3", "4", "5", "6", "7", "8", "9">>

LowerLetters == <<"a", "b", "c", "d", "e", "f", "g", "h", "i", "j", "k", "l", "m",
                  "n", "o", "p", "q", "r", "s", "t", "u", "v", "w", "x", "y", "z">>

UpperLetters == <<"A", "B", "C", "D", "E", "F", "G", "H", "I", "J", "K", "L", "M",
                  "N", "O", "P", "Q", "R", "S", "T", "U", "V", "W", "X", "Y", "Z">>

\* the function that sends each element of a sequence to its position
PositionIn(seq) ==
    [c \in {seq[i] : i \in 1..Len(seq)} |-> CHOOSE i \in 1..Len(seq) : seq[i] = c]

DigitValue == PositionIn(Digits)
LetterIndex == PositionIn(LowerLetters)

\* table[c] for a character of the table, 0 for any other
Lookup(table, c) == IF c \in DOMAIN table THEN table[c] ELSE 0

IsDigitChar(c) == c \in DOMAIN DigitValue

DigitVal(c) == Lookup(DigitValue, c) - 1

UpperChar(c) ==
    LET at(i) == IF i = 0 THEN c ELSE UpperLetters[i]
    IN  at(Lookup(LetterIndex, c))

\* str.upper()
Upper(s) == [i \in 1..Len(s) |-> UpperChar(s[i])]

\* str.isdigit(): non-empty and every character a digit
IsDigit(s) == Len(s) > 0 /\ \A i \in 1..Len(s) : IsDigitChar(s[i])

\* s[a..b] as a text (empty when a > b)
Slice(s, a, b) == IF a > b THEN <<>> ELSE SubSeq(s, a, b)

\* str.strip(chars) for one character: the leading and trailing runs removed
StripChar(s, c) ==
    IF \A i \in 1..Len(s) : s[i] = c THEN <<>>
    ELSE Slice(s,
               CHOOSE i \in 1..Len(s) : s[i] # c /\ \A j \in 1..(i - 1) : s[j] = c,
               CHOOSE i \in 1..Len(s) : s[i] # c /\ \A j \in (i + 1)..Len(s) : s[j] = c)

\* str.strip(): leading and trailing blanks removed
Strip(s) == StripChar(s, " ")

\* str.strip("'"): leading and trailing quote characters removed
StripQuotes(s) == StripChar(s, "'")

\* pat occurs in s at position i
OccursAt(s, pat, i) ==
    /\ i >= 1
    /\ i + Len(pat) - 1 <= Len(s)
    /\ \A k \in 1..Len(pat) : s[i + k - 1] = pat[k]

\* `pat in s`
Contains(s, pat) == \E i \in 1..(Len(s) + 1) : OccursAt(s, pat, i)

\* the least position of a set of positions, or the default for the empty set
FirstOr(S, default) == IF S = {} THEN default ELSE CHOOSE i \in S : \A j \in S : i <= j

\* the first position at or after `from` where pat occurs in s, 0 if none
FindFrom(s, pat, from) == FirstOr({i \in from..(Len(s) + 1) : OccursAt(s, pat, i)}, 0)

\* the pieces before and after the occurrence of pat at p, s itself when p = 0
CutAt(s, pat, p) ==
    IF p = 0 THEN <<s>> ELSE <<Slice(s, 1, p - 1), Slice(s, p + Len(pat), Len(s))>>

\* str.split(pat, 1): at most two parts
Split1(s, pat) == CutAt(s, pat, FindFrom(s, pat, 1))

\* str.split(pat): all the parts, empty ones included
RECURSIVE Split(_, _)
Split(s, pat) ==
    LET more(cut) == IF Len(cut) = 1 THEN cut ELSE <<cut[1]>> \o Split(cut[2], pat)
    IN  more(Split1(s, pat))

\* str.replace(pat, "", 1) for a one-character pat
RemoveFirst(s, c) ==
    LET glue(cut) == IF Len(cut) = 1 THEN cut[1] ELSE cut[1] \o cut[2]
    IN  glue(Split1(s, <<c>>))

\* the first position at or after `from` that holds no blank
SkipBlanks(s, from) == FirstOr({i \in from..Len(s) : s[i] # " "}, Len(s) + 1)

\* the keyword kw stands at position k of u = s.upper() with a blank after it
KeywordAt(u, kw, k) ==
    /\ OccursAt(u, kw, k)
    /\ k + Len(kw) <= Len(u)
    /\ u[k + Len(kw)] = " "

\* the first position where \s+kw\s+ matches: a blank followed by blanks, the
\* keyword (any case) and a blank; 0 if none
FindKeyword(s, kw) ==
    FirstOr({i \in 1..Len(s) : s[i] = " " /\ KeywordAt(Upper(s), kw, SkipBlanks(s, i))}, 0)

\* re.split(r'\s+kw\s+', s, flags=re.IGNORECASE): the match at p takes the
\* blanks, the keyword and the blanks after it
RECURSIVE RegexSplit(_, _)
RegexSplitAt(s, kw, p) ==
    IF p = 0 THEN <<s>>
    ELSE <<Slice(s, 1, p - 1)>>
         \o RegexSplit(Slice(s, SkipBlanks(s, SkipBlanks(s, p) + Len(kw)), Len(s)), kw)

RegexSplit(s, kw) == RegexSplitAt(s, kw, FindKeyword(s, kw))

\* int(s) for a text of digits
RECURSIVE IntOf(_)
IntOf(s) ==
    IF Len(s) = 0 THEN 0
    ELSE 10 * IntOf(Slice(s, 1, Len(s) - 1)) + DigitVal(s[Len(s)])

----------------------------------------------------------------------------
(* Python values.  A number is held in tenths (num), so that 1, 1.0 and    *)
(* True compare equal as they do in Python; reals of the model have at     *)
(* most one fractional digit.                                              *)

IntValue(n)   == [kind |-> "int",  num |-> 10 * n, txt |-> <<>>]
RealValue(t)  == [kind |-> "real", num |-> t,      txt |-> <<>>]
BoolValue(b)  == [kind |-> "bool", num |-> IF b THEN 10 ELSE 0, txt |-> <<>>]
NoneValue     == [kind |-> "none", num |-> 0,      txt |-> <<>>]
TextValue(s)  == [kind |-> "text", num |-> 0,      txt |-> s]

IsNumber(v) == v.kind \in {"int", "real", "bool"}

\* Python ==
PyEq(a, b) ==
    \/ IsNumber(a) /\ IsNumber(b) /\ a.num = b.num
    \/ a.kind = "text" /\ b.kind = "text" /\ a.txt = b.txt
    \/ a.kind = "none" /\ b.kind = "none"

\* float(s) in tenths, for the digits before and after the dot
RealOf(s) ==
    LET tenths(cut) ==
            10 * IntOf(cut[1]) + (IF Len(cut[2]) = 0 THEN 0 ELSE DigitVal(cut[2][1]))
    IN  tenths(Split1(s, <<".">>))

KwTrue  == <<"T", "R", "U", "E">>
KwFalse == <<"F", "A", "L", "S", "E">>
KwNull  == <<"N", "U", "L", "L">>

\* a coercion that makes a real of a text of digits, as float(v) does
CoerceRealFirst(v) ==
    LET word(u) == IF u = KwTrue THEN BoolValue(TRUE)
                   ELSE IF u = KwFalse THEN BoolValue(FALSE)
                   ELSE IF v = KwNull THEN NoneValue
                   ELSE TextValue(v)
    IN  IF IsDigit(v) THEN RealValue(10 * IntOf(v))
        ELSE IF IsDigit(RemoveFirst(v, ".")) THEN RealValue(RealOf(v))
        ELSE word(Upper(v))

\* the literal coercion of INSERT, UPDATE and WHERE, on a text v already
\* stripped of blanks and quotes
Coerce(v) ==
    LET word(u) == IF u = KwTrue THEN BoolValue(TRUE)
                   ELSE IF u = KwFalse THEN BoolValue(FALSE)
                   ELSE IF v = KwNull THEN NoneValue
                   ELSE TextValue(v)
    IN  IF IsDigit(v) THEN IntValue(IntOf(v))
        ELSE IF IsDigit(RemoveFirst(v, ".")) THEN RealValue(RealOf(v))
        ELSE word(Upper(v))

----------------------------------------------------------------------------
(* Schema model: Column, Index, Table (src/rdbms.py, lines 12-73) *)

TypeInteger == <<"I", "N", "T", "E", "G", "E", "R">>
TypeText    == <<"T", "E", "X", "T">>
TypeReal    == <<"R", "E", "A", "L">>
TypeBoolean == <<"B", "O", "O", "L", "E", "A", "N">>
TypeDate    == <<"D", "A", "T", "E">>

DataTypes == {TypeInteger, TypeText, TypeReal, TypeBoolean, TypeDate}

Column(name, data_type, is_primary, is_unique, is_nullable) ==
    [name |-> name, data_type |-> data_type, is_primary |-> is_primary,
     is_unique |-> is_unique, is_nullable |-> is_nullable]

Index(column_names) == [column_names |-> column_names, entries |-> <<>>]

\* the key tuples of a dict compare as Python tuples do
KeyEq(k1, k2) == Len(k1) = Len(k2) /\ \A i \in 1..Len(k1) : PyEq(k1[i], k2[i])

\* entries.setdefault(key, []).append(pos), same being the keys equal to key
EntriesAdd(entries, key, pos) ==
    LET put(same) ==
            IF same = {}
            THEN [k \in DOMAIN entries \cup {key} |->
                     IF k = key THEN <<pos>> ELSE entries[k]]
            ELSE [k \in DOMAIN entries |->
                     IF k \in same THEN Append(entries[k], pos) ELSE entries[k]]
    IN  put({k \in DOMAIN entries : KeyEq(k, key)})

\* the columns of column_names that are keys of the row, in order
RECURSIVE PresentKey(_, _)
PresentKey(row, column_names) ==
    IF Len(column_names) = 0 THEN <<>>
    ELSE (IF Head(column_names) \in DOMAIN row
          THEN <<row[Head(column_names)]>> ELSE <<>>)
         \o PresentKey(row, Tail(column_names))

PrimaryName   == <<"_", "_", "p", "r", "i", "m", "a", "r", "y">>
UniquePrefix  == <<"_", "_", "u", "n", "i", "q", "u", "e", "_">>

\* Table.__post_init__: the first column flagged primary, if any
FirstPrimary(columns) ==
    IF \E i \in 1..Len(columns) : columns[i].is_primary
    THEN <<columns[CHOOSE i \in 1..Len(columns) :
               columns[i].is_primary /\ \A j \in 1..(i - 1) : ~columns[j].is_primary]>>
    ELSE <<>>

\* Table._create_default_indexes, pk being the primary key column if any
CreateDefaultIndexes(columns, pk) ==
    [n \in (IF pk # <<>> THEN {PrimaryName} ELSE {})
           \cup {UniquePrefix \o columns[i].name :
                   i \in {i \in 1..Len(columns) :
                             columns[i].is_unique /\ (pk = <<>> \/ columns[i] # pk[1])}} |->
        IF n = PrimaryName THEN Index(<<pk[1].name>>)
        ELSE Index(<<Slice(n, Len(UniquePrefix) + 1, Len(n))>>)]

\* Table(name, columns) with __post_init__
NewTable(name, columns) ==
    LET with(pk) == [name |-> name, columns |-> columns, rows |-> <<>>,
                     indexes |-> CreateDefaultIndexes(columns, pk),
                     next_row_id |-> 1, primary_key_column |-> pk]
    IN  with(FirstPrimary(columns))

----------------------------------------------------------------------------
(* Results of execute_sql: the list it returns, or the exception it raises *)

Status(msg, n)  == [kind |-> "status", msg |-> msg, n |-> n, rows |-> <<>>, exc |-> ""]
Rows(rows)      == [kind |-> "rows", msg |-> "", n |-> 0, rows |-> rows, exc |-> ""]
Raise(exc, msg) == [kind |-> "error", msg |-> msg, n |-> 0, rows |-> <<>>, exc |-> exc]

IsError(r) == r.kind = "error"

\* what a handler leaves behind: the catalog, the snapshots, the result
Outcome(t, d, r) == [tables |-> t, disk |-> d, result |-> r]

\* SimpleRDBMS._save_table
SaveTable(t, d, name) ==
    [n \in DOMAIN d \cup {name} |-> IF n = name THEN t[name] ELSE d[n]]

\* a success that replaces the table in the catalog and saves nothing
SavedInMemory(t, d, name, table, r) ==
    Outcome([n \in DOMAIN t \cup {name} |-> IF n = name THEN table ELSE t[n]], d, r)

\* a handler's success: the table replaced in the catalog, then saved
Saved(t, d, name, table, r) ==
    Outcome([n \in DOMAIN t \cup {name} |-> IF n = name THEN table ELSE t[n]],
            [n \in DOMAIN d \cup {name} |-> IF n = name THEN table ELSE d[n]], r)

\* a reload that keeps the tables of the catalog as they are in memory
LoadTablesKept(t, d) == t

\* SimpleRDBMS._load_tables: every snapshot replaces the table of its name
LoadTables(t, d) ==
    [n \in DOMAIN t \cup DOMAIN d |-> IF n \in DOMAIN d THEN d[n] ELSE t[n]]

----------------------------------------------------------------------------
(* Predicate evaluator: SimpleRDBMS._evaluate_where (lines 361-419) *)

\* the characters of the model in code-point order, for Python's text ordering
CodePoints == <<" ", "!", "%", "'", ",", ".">> \o Digits \o <<"<", "=", ">">>
              \o UpperLetters \o <<"_">> \o LowerLetters

CodePoint == PositionIn(CodePoints)

\* a < b for two texts
RECURSIVE TextLess(_, _)
TextLess(a, b) ==
    IF Len(b) = 0 THEN FALSE
    ELSE IF Len(a) = 0 THEN TRUE
    ELSE IF a[1] # b[1] THEN Lookup(CodePoint, a[1]) < Lookup(CodePoint, b[1])
    ELSE TextLess(Tail(a), Tail(b))

\* Python can order the two values: numbers with numbers, texts with texts
Orderable(a, b) ==
    \/ IsNumber(a) /\ IsNumber(b)
    \/ a.kind = "text" /\ b.kind = "text"

PyLess(a, b) == IF IsNumber(a) THEN a.num < b.num ELSE TextLess(a.txt, b.txt)

\* the decimal digits of a natural number
RECURSIVE DecimalText(_)
DecimalText(n) ==
    IF n < 10 THEN <<Digits[n + 1]>>
    ELSE DecimalText(n \div 10) \o <<Digits[(n % 10) + 1]>>

\* str(left_val or "")
StrOrEmpty(v) ==
    IF v.kind = "text" THEN v.txt
    ELSE IF v.kind = "none" \/ v.num = 0 THEN <<>>
    ELSE IF v.kind = "bool" THEN <<"T", "r", "u", "e">>
    ELSE DecimalText(v.num \div 10)
         \o (IF v.kind = "int" THEN <<>> ELSE <<".", Digits[(v.num % 10) + 1]>>)

\* re.match(right.replace("%", ".*"), text): anchored at the start only; the
\* patterns of the model hold letters, digits, blanks, "%" and "."
RECURSIVE LikeMatch(_, _)
LikeMatch(pat, text) ==
    IF Len(pat) = 0 THEN TRUE
    ELSE IF pat[1] = "%"
    THEN \E k \in 1..(Len(text) + 1) : LikeMatch(Tail(pat), Slice(text, k, Len(text)))
    ELSE /\ Len(text) > 0
         /\ (pat[1] = "." \/ pat[1] = text[1])
         /\ LikeMatch(Tail(pat), Tail(text))

\* the operators in the order the evaluator tries them
Operators == << <<"=">>, <<"!", "=">>, <<"<">>, <<">">>, <<"<", "=">>, <<">", "=">>,
                <<"L", "I", "K", "E">>, <<"I", "S", " ", "N", "U", "L", "L">>,
                <<"I", "S", " ", "N", "O", "T", " ", "N", "U", "L", "L">> >>

Spaced(op) == <<" ">> \o op \o <<" ">>

\* row.get(key, None)
RowGet(row, key) == IF key \in DOMAIN row THEN row[key] ELSE NoneValue

Truth(b) == IF b THEN "true" ELSE "false"

\* an ordering comparison raises TypeError on values Python cannot order
Ordered(a, b, holds) == IF Orderable(a, b) THEN Truth(holds) ELSE "TypeError"

\* the branch of operator number op, on the looked-up left value, the stripped
\* right text and its coerced value
Compare(op, left_val, right, right_val) ==
    CASE op = 8 -> Truth(left_val.kind = "none")
      [] op = 9 -> Truth(left_val.kind # "none")
      [] op = 7 -> Truth(LikeMatch(right, StrOrEmpty(left_val)))
      [] op = 1 -> Truth(PyEq(left_val, right_val))
      [] op = 2 -> Truth(~PyEq(left_val, right_val))
      [] op = 3 -> Ordered(left_val, right_val, PyLess(left_val, right_val))
      [] op = 4 -> Ordered(left_val, right_val, PyLess(right_val, left_val))
      [] op = 5 -> Ordered(left_val, right_val, ~PyLess(right_val, left_val))
      [] op = 6 -> Ordered(left_val, right_val, ~PyLess(left_val, right_val))

\* left, right = condition.split(f" {op} ", 1), then the branch of the operator
CompareParts(row, op, parts) ==
    IF Len(parts) < 2 THEN "ValueError"
    ELSE Compare(op, RowGet(row, Strip(parts[1])), StripQuotes(Strip(parts[2])),
                 Coerce(StripQuotes(Strip(parts[2]))))

\* the first operator of the list that occurs, between blanks, in u, 0 if none
FirstOperator(u) ==
    FirstOr({i \in 1..Len(Operators) : Contains(u, Spaced(Operators[i]))}, 0)

\* one comparison; "true", "false", or the exception it raises
EvaluateComparison(row, condition) ==
    LET with(op) == IF op = 0 THEN "false"
                    ELSE CompareParts(row, op, Split1(condition, Spaced(Operators[op])))
    IN  with(FirstOperator(Upper(condition)))

KwAnd == <<"A", "N", "D">>
KwOr  == <<"O", "R">>

\* all(...) and any(...) over the parts, left to right, stopping as Python does
RECURSIVE EvaluateWhere(_, _)
RECURSIVE EvaluateAll(_, _)
RECURSIVE EvaluateAny(_, _)

EvaluateAll(row, parts) ==
    LET after(r) == IF r = "true" THEN EvaluateAll(row, Tail(parts)) ELSE r
    IN  IF Len(parts) = 0 THEN "true" ELSE after(EvaluateWhere(row, Head(parts)))

EvaluateAny(row, parts) ==
    LET after(r) == IF r = "false" THEN EvaluateAny(row, Tail(parts)) ELSE r
    IN  IF Len(parts) = 0 THEN "false" ELSE after(EvaluateWhere(row, Head(parts)))

\* a reading of the stripped condition in which OR splits before AND
EvaluateOrFirst(row, condition, u) ==
    IF Contains(u, Spaced(KwOr)) THEN EvaluateAny(row, RegexSplit(condition, KwOr))
    ELSE IF Contains(u, Spaced(KwAnd)) THEN EvaluateAll(row, RegexSplit(condition, KwAnd))
    ELSE EvaluateComparison(row, condition)

\* the stripped condition, u being its upper case: AND splits before OR
EvaluateStripped(row, condition, u) ==
    IF Contains(u, Spaced(KwAnd)) THEN EvaluateAll(row, RegexSplit(condition, KwAnd))
    ELSE IF Contains(u, Spaced(KwOr)) THEN EvaluateAny(row, RegexSplit(condition, KwOr))
    ELSE EvaluateComparison(row, condition)

EvaluateWhere(row, cond) == EvaluateStripped(row, Strip(cond), Upper(Strip(cond)))

----------------------------------------------------------------------------
(* CREATE TABLE: SimpleRDBMS._execute_create_table (lines 155-190) *)

\* the non-empty members of a list of texts
NonEmpty(texts) == SelectSeq(texts, LAMBDA w : Len(w) > 0)

\* str.split(): the words between runs of blanks
SplitWords(s) == NonEmpty(Split(s, <<" ">>))

\* [x.strip() for x in parts]
StripAll(parts) == [i \in 1..Len(parts) |-> Strip(parts[i])]

\* the list of names or literals between commas, each stripped
CommaList(text) == StripAll(Split(text, <<",">>))

KwPrimaryKey == <<"P", "R", "I", "M", "A", "R", "Y", " ", "K", "E", "Y">>
KwUnique     == <<"U", "N", "I", "Q", "U", "E">>
KwNotNull    == <<"N", "O", "T", " ", "N", "U", "L", "L">>

\* the column of a definition, from its words, its upper case u, and whether
\* u holds PRIMARY KEY
ColumnOf(parts, u, is_primary) ==
    Column(parts[1], Upper(parts[2]), is_primary,
           Contains(u, KwUnique) \/ is_primary, ~Contains(u, KwNotNull))

\* one column definition, already stripped and not empty
ParseColumn(col_def) ==
    LET from(u) == ColumnOf(SplitWords(col_def), u, Contains(u, KwPrimaryKey))
    IN  from(Upper(col_def))

\* the exception a column definition raises, "" if none: parts[1] needs a
\* second word, DataType(...) one of the five type names
ColumnDefError(col_def) ==
    LET of(parts) == IF Len(parts) < 2 THEN "IndexError"
                     ELSE IF Upper(parts[2]) \notin DataTypes THEN "ValueError"
                     ELSE ""
    IN  of(SplitWords(col_def))

\* the column definitions between the commas, the empty ones skipped
ColumnDefs(columns_sql) == NonEmpty(CommaList(Strip(columns_sql)))

\* the loop over the definitions: it stops at the first that raises, at
\* position bad (0 if none); otherwise the table is built, stored and saved
CreateFrom(t, d, s, defs, bad) ==
    IF bad # 0
    THEN Outcome(t, d, Raise(ColumnDefError(defs[bad]), "invalid column definition"))
    ELSE Saved(t, d, s.table, NewTable(s.table, [i \in 1..Len(defs) |-> ParseColumn(defs[i])]),
               Status("Table created successfully", Len(defs)))

CreateColumns(t, d, s, defs) ==
    CreateFrom(t, d, s, defs, FirstOr({i \in 1..Len(defs) : ColumnDefError(defs[i]) # ""}, 0))

ExecuteCreateTable(t, d, s) ==
    IF s.table \in DOMAIN t
    THEN Outcome(t, d, Raise("ValueError", "Table already exists"))
    ELSE CreateColumns(t, d, s, ColumnDefs(s.columns_sql))

----------------------------------------------------------------------------
(* INSERT: SimpleRDBMS._execute_insert and _validate_row (lines 192-277) *)

\* the type check of a value that is not None: isinstance(value, int),
\* isinstance(value, (int, float)), isinstance(value, bool)
TypeError(data_type, kind) ==
    IF data_type = TypeInteger /\ kind \notin {"int", "bool"} THEN "Column expects INTEGER"
    ELSE IF data_type = TypeReal /\ kind \notin {"int", "bool", "real"} THEN "Column expects REAL"
    ELSE IF data_type = TypeBoolean /\ kind # "bool" THEN "Column expects BOOLEAN"
    ELSE ""

\* a null check that is never made
NullErrorSkipped(col) == ""

\* a column the row does not name: refused when the column is not nullable

NullError(col) == IF ~col.is_nullable THEN "Column cannot be NULL" ELSE ""

\* a unique constraint that is never checked
UniqueErrorSkipped(rows, col, value) == ""

\* the unique constraint of a column that is flagged unique
UniqueError(rows, col, value) ==
    IF col.is_unique /\ \E i \in 1..Len(rows) : PyEq(RowGet(rows[i], col.name), value)
    THEN "Duplicate value for unique column"
    ELSE ""

\* the checks of a value that is present and not None
ValueError(rows, col, value, type_error) ==
    IF type_error # "" THEN type_error ELSE UniqueError(rows, col, value)

\* the error one column raises for the row, "" if none
ColumnError(table, row, col) ==
    IF col.name \notin DOMAIN row
    THEN NullError(col)
    ELSE IF row[col.name].kind = "none" THEN ""
    ELSE ValueError(table.rows, col, row[col.name],
                    TypeError(col.data_type, row[col.name].kind))

\* the first error over the declared columns in order, "" if the row is valid
ValidateRow(table, row) ==
    LET at(bad) == IF bad = 0 THEN "" ELSE ColumnError(table, row, table.columns[bad])
    IN  at(FirstOr({i \in 1..Len(table.columns) :
                       ColumnError(table, row, table.columns[i]) # ""}, 0))

\* dict(zip(names, values)): a later pair replaces an earlier one of its name
MakeRow(names, values) ==
    [c \in {names[i] : i \in 1..Len(names)} |->
        values[CHOOSE i \in 1..Len(names) :
                  names[i] = c /\ \A j \in (i + 1)..Len(names) : names[j] # c]]

\* [coerce(v.strip().strip("'")) for v in values_str.split(",")]
Literals(lits) == [i \in 1..Len(lits) |-> Coerce(StripQuotes(lits[i]))]

\* the entry of the new row, at position pos, added to one index
IndexInsert(idx, row, pos) ==
    [idx EXCEPT !.entries = EntriesAdd(@, PresentKey(row, idx.column_names), pos)]

\* table.rows.append(row), then the entry of the row in every index
AppendRow(table, row) ==
    [table EXCEPT !.rows = Append(@, row),
                  !.indexes = [n \in DOMAIN @ |-> IndexInsert(@[n], row, Len(table.rows))]]

\* the row is validated; a valid row is appended, indexed and saved
InsertRow(t, d, s, table, row, err) ==
    IF err # "" THEN Outcome(t, d, Raise("ValueError", err))
    ELSE Saved(t, d, s.table, AppendRow(table, row),
               Status("Row inserted successfully", Len(table.rows) + 1))

InsertValues(t, d, s, table, col_names, values) ==
    IF Len(col_names) # Len(values)
    THEN Outcome(t, d, Raise("ValueError", "Column count doesn't match value count"))
    ELSE InsertRow(t, d, s, table, MakeRow(col_names, values),
                   ValidateRow(table, MakeRow(col_names, values)))

ExecuteInsert(t, d, s) ==
    IF s.table \notin DOMAIN t
    THEN Outcome(t, d, Raise("ValueError", "Table does not exist"))
    ELSE InsertValues(t, d, s, t[s.table],
                      IF Len(s.columns_str) > 0 THEN CommaList(s.columns_str)
                      ELSE [i \in 1..Len(t[s.table].columns) |-> t[s.table].columns[i].name],
                      Literals(CommaList(s.values_str)))

----------------------------------------------------------------------------
(* Index rebuilds: SimpleRDBMS._rebuild_index (lines 564-571) and          *)
(* Table._rebuild_index (lines 65-73)                                      *)

RECURSIVE RebuildEntries(_, _, _, _)
RebuildEntries(rows, column_names, i, entries) ==
    IF i > Len(rows) THEN entries
    ELSE RebuildEntries(rows, column_names, i + 1,
                        EntriesAdd(entries, PresentKey(rows[i], column_names), i - 1))

\* the engine's rebuild: a key holds only the columns the row has
RebuildIndex(rows, idx) ==
    [idx EXCEPT !.entries = RebuildEntries(rows, idx.column_names, 1, <<>>)]

\* for idx in table.indexes.values(): self._rebuild_index(table_name, idx)
RebuildAll(table) ==
    [table EXCEPT !.indexes = [n \in DOMAIN @ |-> RebuildIndex(table.rows, @[n])]]

\* the table's own rebuild reads row[col]: it stops with KeyError at the first
\* row that lacks a column, keeping the entries of the rows before it
HasAll(row, column_names) ==
    \A i \in 1..Len(column_names) : column_names[i] \in DOMAIN row

FirstLacking(rows, column_names) ==
    FirstOr({i \in 1..Len(rows) : ~HasAll(rows[i], column_names)}, Len(rows) + 1)

TableRebuildIndex(rows, idx) ==
    [idx EXCEPT !.entries =
        RebuildEntries(Slice(rows, 1, FirstLacking(rows, idx.column_names) - 1),
                       idx.column_names, 1, <<>>)]

----------------------------------------------------------------------------
(* UPDATE: SimpleRDBMS._execute_update (lines 421-482) *)

\* col, value = assignment.split("=", 1), the column stripped, the value coerced
Assignment(pair) ==
    [col |-> Strip(pair[1]), value |-> Coerce(StripQuotes(Strip(pair[2])))]

Assignments(parts) == [i \in 1..Len(parts) |-> Assignment(Split1(parts[i], <<"=">>))]

\* the assignments of the SET clause that have no "="
BadParts(parts) == {i \in 1..Len(parts) : Len(Split1(parts[i], <<"=">>)) < 2}

BadAssignments(set_clause) == BadParts(Split(set_clause, <<",">>))

\* the updates dict as the list of its (column, value) items: a column keeps
\* the place of its first assignment and the value of its last
DictItems(a) ==
    LET firsts == SelectSeq([i \in 1..Len(a) |-> i],
                            LAMBDA i : \A j \in 1..(i - 1) : a[j].col # a[i].col)
    IN  [k \in 1..Len(firsts) |->
            a[CHOOSE i \in 1..Len(a) :
                  a[i].col = a[firsts[k]].col
                  /\ \A j \in (i + 1)..Len(a) : a[j].col # a[i].col]]

Updates(set_clause) == DictItems(Assignments(Split(set_clause, <<",">>)))

\* next((c for c in table.columns if c.name == col), None): its position, or 0
ColumnNamed(columns, col) == FirstOr({c \in 1..Len(columns) : columns[c].name = col}, 0)

\* the validation of one update for the row at position i, c being the
\* position of the column of its name: the error it raises, "" if none
UpdateCheck(columns, rows, i, upd, c) ==
    IF c = 0 THEN "Column does not exist"
    ELSE IF /\ columns[c].is_unique
            /\ upd.value.kind # "none"
            /\ \E j \in 1..Len(rows) : j # i /\ PyEq(RowGet(rows[j], upd.col), upd.value)
    THEN "Duplicate value for unique column"
    ELSE ""

UpdateErrorAt(columns, rows, i, upd) ==
    UpdateCheck(columns, rows, i, upd, ColumnNamed(columns, upd.col))

\* the first error over the updates in order, "" if all are valid for row i
UpdateError(columns, rows, i, updates) ==
    LET at(bad) == IF bad = 0 THEN "" ELSE UpdateErrorAt(columns, rows, i, updates[bad])
    IN  at(FirstOr({k \in 1..Len(updates) :
                       UpdateErrorAt(columns, rows, i, updates[k]) # ""}, 0))

\* row.update(updates)
RowUpdate(row, updates) ==
    [c \in DOMAIN row \cup {updates[k].col : k \in 1..Len(updates)} |->
        IF \E k \in 1..Len(updates) : updates[k].col = c
        THEN updates[CHOOSE k \in 1..Len(updates) : updates[k].col = c].value
        ELSE row[c]]

\* whether the row is selected: "true", "false" or the exception raised
Matches(row, where_clause) ==
    IF Len(where_clause) = 0 THEN "true" ELSE EvaluateWhere(row, where_clause)

\* the sweep over the rows from position i on: the rows as they are left, the
\* number updated, and the exception that stopped the sweep ("" if none)
Swept(rows, count, exc, msg) == [rows |-> rows, count |-> count, exc |-> exc, msg |-> msg]

RECURSIVE UpdateSweep(_, _, _, _, _, _)

\* the row at position i, m being the outcome of its WHERE test and err that
\* of the validation of the updates against the other rows
SweepRow(columns, rows, i, updates, where_clause, count, m, err) ==
    IF m = "false" THEN UpdateSweep(columns, rows, i + 1, updates, where_clause, count)
    ELSE IF m # "true" THEN Swept(rows, count, m, "WHERE raised")
    ELSE IF err # "" THEN Swept(rows, count, "ValueError", err)
    ELSE UpdateSweep(columns, [rows EXCEPT ![i] = RowUpdate(@, updates)],
                     i + 1, updates, where_clause, count + 1)

UpdateSweep(columns, rows, i, updates, where_clause, count) ==
    IF i > Len(rows) THEN Swept(rows, count, "", "")
    ELSE SweepRow(columns, rows, i, updates, where_clause, count,
                  Matches(rows[i], where_clause), UpdateError(columns, rows, i, updates))

\* a sweep after which the indexes are rebuilt and the table saved even when
\* no row was updated
UpdateDoneSaved(t, d, s, table, sweep) ==
    IF sweep.exc # ""
    THEN Outcome([t EXCEPT ![s.table] = [table EXCEPT !.rows = sweep.rows]], d,
                 Raise(sweep.exc, sweep.msg))
    ELSE Saved(t, d, s.table, RebuildAll([table EXCEPT !.rows = sweep.rows]),
               Status("row(s) updated", sweep.count))

\* a sweep whose exception leaves the table as it was before the statement
UpdateDoneAtomic(t, d, s, table, sweep) ==
    IF sweep.exc # ""
    THEN Outcome(t, d, Raise(sweep.exc, sweep.msg))
    ELSE IF sweep.count > 0
    THEN Saved(t, d, s.table, RebuildAll([table EXCEPT !.rows = sweep.rows]),
               Status("row(s) updated", sweep.count))
    ELSE Outcome(t, d, Status("row(s) updated", 0))

\* after the sweep: an exception leaves the rows as the sweep left them, the
\* indexes and the snapshot as they were; otherwise the indexes are rebuilt and
\* the table saved when a row was updated
UpdateDone(t, d, s, table, sweep) ==
    IF sweep.exc # ""
    THEN Outcome([t EXCEPT ![s.table] = [table EXCEPT !.rows = sweep.rows]], d,
                 Raise(sweep.exc, sweep.msg))
    ELSE IF sweep.count > 0
    THEN Saved(t, d, s.table, RebuildAll([table EXCEPT !.rows = sweep.rows]),
               Status("row(s) updated", sweep.count))
    ELSE Outcome(t, d, Status("row(s) updated", 0))

UpdateRows(t, d, s, table, set_clause) ==
    IF BadAssignments(set_clause) # {}
    THEN Outcome(t, d, Raise("ValueError", "not enough values to unpack"))
    ELSE UpdateDone(t, d, s, table,
                    UpdateSweep(table.columns, table.rows, 1, Updates(set_clause),
                                s.where_clause, 0))

ExecuteUpdate(t, d, s) ==
    IF s.table \notin DOMAIN t
    THEN Outcome(t, d, Raise("ValueError", "Table does not exist"))
    ELSE UpdateRows(t, d, s, t[s.table], Strip(s.set_clause))

----------------------------------------------------------------------------
(* DELETE, DROP TABLE, CREATE INDEX (lines 484-562) *)

\* the outcome of the WHERE test of every row, in order
MatchResults(rows, where_clause) ==
    [i \in 1..Len(rows) |-> Matches(rows[i], where_clause)]

\* the position of the first row whose test raised, 0 if none
Raised(m) == FirstOr({i \in 1..Len(m) : m[i] \notin {"true", "false"}}, 0)

\* the positions of the rows the test selected, and of those it did not
Selected(m)   == SelectSeq([i \in 1..Len(m) |-> i], LAMBDA i : m[i] = "true")

\* a choice of the rows to keep that takes the selected ones
UnselectedInverted(m) == Selected(m)

Unselected(m) == SelectSeq([i \in 1..Len(m) |-> i], LAMBDA i : m[i] # "true")

\* the rows at the positions, in their order
Pick(rows, positions) == [k \in 1..Len(positions) |-> rows[positions[k]]]

\* the rows are popped; when any was, the indexes are rebuilt and the table saved
DeleteRows(t, d, s, table, kept) ==
    IF Len(kept) < Len(table.rows)
    THEN Saved(t, d, s.table, RebuildAll([table EXCEPT !.rows = kept]),
               Status("row(s) deleted", Len(table.rows) - Len(kept)))
    ELSE Outcome(t, d, Status("row(s) deleted", 0))

DeleteWhere(t, d, s, table, m) ==
    IF Raised(m) # 0 THEN Outcome(t, d, Raise(m[Raised(m)], "WHERE raised"))
    ELSE DeleteRows(t, d, s, table, Pick(table.rows, Unselected(m)))

ExecuteDelete(t, d, s) ==
    IF s.table \notin DOMAIN t
    THEN Outcome(t, d, Raise("ValueError", "Table does not exist"))
    ELSE DeleteWhere(t, d, s, t[s.table], MatchResults(t[s.table].rows, s.where_clause))

ExecuteDropTable(t, d, s) ==
    IF s.table \notin DOMAIN t
    THEN Outcome(t, d, Raise("ValueError", "Table does not exist"))
    ELSE Outcome([n \in DOMAIN t \ {s.table} |-> t[n]],
                 [n \in DOMAIN d \ {s.table} |-> d[n]],
                 Status("Table dropped successfully", 0))

\* Table.add_index: the index is registered, then backfilled
AddIndex(table, name, column_names) ==
    [table EXCEPT !.indexes =
        [n \in DOMAIN @ \cup {name} |->
            IF n = name THEN TableRebuildIndex(table.rows, Index(column_names))
            ELSE @[n]]]

\* the backfill raises KeyError at a row that lacks a column: the index stays
\* registered with the entries made so far, and the table is not saved
IndexAdded(t, d, s, table, column_names, indexed) ==
    IF FirstLacking(table.rows, column_names) <= Len(table.rows)
    THEN Outcome([t EXCEPT ![s.table] = indexed], d, Raise("KeyError", "row lacks the column"))
    ELSE Saved(t, d, s.table, indexed, Status("Index created", 0))

IndexColumns(t, d, s, table, column_names) ==
    IF \E i \in 1..Len(column_names) : ColumnNamed(table.columns, column_names[i]) = 0
    THEN Outcome(t, d, Raise("ValueError", "Column does not exist in table"))
    ELSE IndexAdded(t, d, s, table, column_names, AddIndex(table, s.index, column_names))

ExecuteCreateIndex(t, d, s) ==
    IF s.table \notin DOMAIN t
    THEN Outcome(t, d, Raise("ValueError", "Table does not exist"))
    ELSE IndexColumns(t, d, s, t[s.table], CommaList(s.columns_str))

----------------------------------------------------------------------------
(* SELECT: SimpleRDBMS._execute_select (lines 279-359) *)

KwJoin == <<"J", "O", "I", "N">>
KwOn   == <<" ", "O", "N", " ">>

\* a part of the FROM clause with " ON " in its upper case only: the split on
\* " ON " yields one piece and the unpacking raises
PartError(part) == Contains(Upper(part), KwOn) /\ ~Contains(part, KwOn)

\* the table name of a part: what stands before " ON ", stripped
PartTable(part) == Strip(Split1(part, KwOn)[1])

\* {**row1, **{f"{name}.{k}": v for k, v in row2.items()}}
Dotted(name, k) == name \o <<".">> \o k

JoinRow(row1, name, row2) ==
    [c \in DOMAIN row1 \cup {Dotted(name, k) : k \in DOMAIN row2} |->
        IF \E k \in DOMAIN row2 : Dotted(name, k) = c
        THEN row2[CHOOSE k \in DOMAIN row2 : Dotted(name, k) = c]
        ELSE row1[c]]

\* the nested loop over the first two tables
CrossProduct(rows1, name, rows2) ==
    [i \in 1..(Len(rows1) * Len(rows2)) |->
        JoinRow(rows1[((i - 1) \div Len(rows2)) + 1], name, rows2[((i - 1) % Len(rows2)) + 1])]

\* the sort key of a row: tuple(x.get(col, "") for col in order_cols)
SortKey(row, order_cols) ==
    [i \in 1..Len(order_cols) |->
        IF order_cols[i] \in DOMAIN row THEN row[order_cols[i]] ELSE TextValue(<<>>)]

\* the first place where two key tuples differ, 0 if they are equal
FirstDiff(k1, k2) == FirstOr({i \in 1..Len(k1) : ~PyEq(k1[i], k2[i])}, 0)

\* tuples are ordered by their elements at the first place where they differ
KeyOrderable(k1, k2) ==
    LET at(p) == p = 0 \/ Orderable(k1[p], k2[p])
    IN  at(FirstDiff(k1, k2))

KeyLess(k1, k2) ==
    LET at(p) == p # 0 /\ PyLess(k1[p], k2[p])
    IN  at(FirstDiff(k1, k2))

\* list.sort(key=...): stable and ascending; the row of key number i goes
\* after the rows whose key is smaller and the earlier rows whose key is equal
Rank(keys, i) ==
    Cardinality({j \in 1..Len(keys) :
                    KeyLess(keys[j], keys[i]) \/ (j < i /\ ~KeyLess(keys[i], keys[j]))})

SortKeys(rows, order_cols) == [i \in 1..Len(rows) |-> SortKey(rows[i], order_cols)]

SortRows(rows, order_cols) ==
    LET by(keys) ==
            [p \in 1..Len(rows) |-> rows[CHOOSE i \in 1..Len(rows) : Rank(keys, i) = p - 1]]
    IN  by(SortKeys(rows, order_cols))

\* the sort raises TypeError when it compares two keys that cannot be ordered
SortError(rows, order_cols) ==
    LET among(keys) == \E i, j \in 1..Len(keys) : ~KeyOrderable(keys[i], keys[j])
    IN  among(SortKeys(rows, order_cols))

\* the requested columns of one row: a name the row has; a dotted name the row
\* lacks is given None; any other name the row lacks is left out
Project(row, columns) ==
    [c \in {columns[i] : i \in {i \in 1..Len(columns) :
                columns[i] \in DOMAIN row \/ Contains(columns[i], <<".">>)}} |->
        RowGet(row, c)]

\* a projection made in place: a table whose rows were taken as they are is
\* left with the projected rows
ProjectedInPlace(t, d, columns, rows) ==
    LET left(projected) ==
            Outcome([n \in DOMAIN t |->
                        IF t[n].rows = rows THEN [t[n] EXCEPT !.rows = projected] ELSE t[n]],
                    d, Rows(projected))
    IN  left([i \in 1..Len(rows) |-> Project(rows[i], columns)])

Projected(t, d, columns, rows) ==
    Outcome(t, d, Rows([i \in 1..Len(rows) |-> Project(rows[i], columns)]))

\* a SELECT that projects first and sorts the projected rows
SelectOrderedLate(t, d, columns, rows, order_cols) ==
    LET late(projected) ==
            IF SortError(projected, order_cols)
            THEN Outcome(t, d, Raise("TypeError", "keys cannot be ordered"))
            ELSE Outcome(t, d, Rows(SortRows(projected, order_cols)))
    IN  late([i \in 1..Len(rows) |-> Project(rows[i], columns)])

SelectOrdered(t, d, columns, rows, order_cols) ==
    IF SortError(rows, order_cols)
    THEN Outcome(t, d, Raise("TypeError", "keys cannot be ordered"))
    ELSE Projected(t, d, columns, SortRows(rows, order_cols))

SelectSorted(t, d, s, columns, rows) ==
    IF Len(s.order_clause) = 0 THEN Projected(t, d, columns, rows)
    ELSE SelectOrdered(t, d, columns, rows, CommaList(s.order_clause))

SelectFiltered(t, d, s, columns, results, m) ==
    IF Raised(m) # 0 THEN Outcome(t, d, Raise(m[Raised(m)], "WHERE raised"))
    ELSE SelectSorted(t, d, s, columns, Pick(results, Selected(m)))

\* the rows of the first table, or its product with the second; then the
\* WHERE filter, the sort and the projection
SelectRows(t, d, s, columns, results) ==
    SelectFiltered(t, d, s, columns, results, MatchResults(results, s.where_clause))

SelectColumns(table, select_clause) ==
    IF select_clause = <<"*">>
    THEN [i \in 1..Len(table.columns) |-> table.columns[i].name]
    ELSE CommaList(select_clause)

SelectTables(t, d, s, names) ==
    IF \E i \in 1..Len(names) : names[i] \notin DOMAIN t
    THEN Outcome(t, d, Raise("ValueError", "Table does not exist"))
    ELSE SelectRows(t, d, s, SelectColumns(t[names[1]], Strip(s.select_clause)),
                    IF Len(names) = 1 THEN t[names[1]].rows
                    ELSE CrossProduct(t[names[1]].rows, names[2], t[names[2]].rows))

SelectJoin(t, d, s, parts) ==
    IF \E i \in 1..Len(parts) : PartError(parts[i])
    THEN Outcome(t, d, Raise("ValueError", "not enough values to unpack"))
    ELSE SelectTables(t, d, s, [i \in 1..Len(parts) |-> PartTable(parts[i])])

SelectFrom(t, d, s, from_clause) ==
    IF Contains(Upper(from_clause), Spaced(KwJoin))
    THEN SelectJoin(t, d, s, RegexSplit(from_clause, KwJoin))
    ELSE SelectTables(t, d, s, <<from_clause>>)

ExecuteSelect(t, d, s) == SelectFrom(t, d, s, Strip(s.from_clause))

----------------------------------------------------------------------------
(* Transactions (lines 573-587) and the facade execute_sql (lines 100-153) *)

\* _commit_transaction returns a copy of the log; the caller reports its length
CommitTransaction(log) == log

\* sql.strip().replace("\n", " ").replace("\t", " "): a statement written over
\* several indented lines becomes one line with runs of blanks between its
\* clauses; runs of blanks are not collapsed
Normalize(s) == [s EXCEPT !.layout = IF @ = "lines" THEN "spaced" ELSE @]

\* whether the regular expression of the command matches the normalized text:
\* the patterns of UPDATE, DELETE and CREATE INDEX put exactly one blank before
\* SET, WHERE and ON; those of the other commands take any run of blanks
SyntaxOk(s) ==
    \/ s.layout = "line"
    \/ s.cmd \notin {"UPDATE", "DELETE", "CREATE INDEX"}
    \/ s.cmd = "DELETE" /\ Len(s.where_clause) = 0

\* the chain of startswith tests over the data commands, each handler first
\* matching its pattern
Execute(t, d, s) ==
    IF ~SyntaxOk(s) THEN Outcome(t, d, Raise("ValueError", "Invalid syntax"))
    ELSE CASE s.cmd = "CREATE TABLE" -> ExecuteCreateTable(t, d, s)
           [] s.cmd = "INSERT"       -> ExecuteInsert(t, d, s)
           [] s.cmd = "SELECT"       -> ExecuteSelect(t, d, s)
           [] s.cmd = "UPDATE"       -> ExecuteUpdate(t, d, s)
           [] s.cmd = "DELETE"       -> ExecuteDelete(t, d, s)
           [] s.cmd = "DROP TABLE"   -> ExecuteDropTable(t, d, s)
           [] s.cmd = "CREATE INDEX" -> ExecuteCreateIndex(t, d, s)
           [] OTHER -> Outcome(t, d, Raise("ValueError", "Unsupported SQL command"))

\* a log that takes the newest statement first
LoggedFirst(s) ==
    IF in_transaction THEN <<Normalize(s)>> \o transaction_log ELSE transaction_log

\* a log that takes every statement, whether or not a transaction is open
LoggedAlways(s) == Append(transaction_log, Normalize(s))

\* the log as execute_sql leaves it before it dispatches
Logged(s) ==
    IF in_transaction THEN Append(transaction_log, Normalize(s)) ELSE transaction_log

\* execute_sql on a data statement: normalized, logged when a transaction is
\* open, then dispatched; out is what its handler leaves
Dispatch(s, out) ==
    /\ transaction_log' = Logged(s)
    /\ tables' = out.tables
    /\ disk' = out.disk
    /\ result' = out.result
    /\ UNCHANGED in_transaction

ExecuteSql(s) == Dispatch(s, Execute(tables, disk, Normalize(s)))

----------------------------------------------------------------------------
(* The statements the callers of the model submit *)

MaxRows == 2
MaxLog == 3

TableT  == <<"t">>
ColId   == <<"i", "d">>
ColV    == <<"v">>
ColZ    == <<"z">>
Comma   == <<",", " ">>
Equals  == <<" ", "=", " ">>
Star    == <<"*">>

One     == <<"1">>
Two     == <<"2">>
Three   == <<"3">>

ColumnDef(name, data_type, flags) == name \o <<" ">> \o data_type \o flags

\* id INTEGER PRIMARY KEY, v INTEGER UNIQUE
SchemaA == ColumnDef(ColId, TypeInteger, <<" ">> \o KwPrimaryKey) \o Comma
           \o ColumnDef(ColV, TypeInteger, <<" ">> \o KwUnique)

\* id INTEGER PRIMARY KEY NOT NULL, v INTEGER NOT NULL
SchemaB == ColumnDef(ColId, TypeInteger, <<" ">> \o KwPrimaryKey \o <<" ">> \o KwNotNull)
           \o Comma \o ColumnDef(ColV, TypeInteger, <<" ">> \o KwNotNull)

\* id INTEGER PRIMARY KEY, v INTEGER PRIMARY KEY
SchemaC == ColumnDef(ColId, TypeInteger, <<" ">> \o KwPrimaryKey) \o Comma
           \o ColumnDef(ColV, TypeInteger, <<" ">> \o KwPrimaryKey)

\* v INTEGER, v INTEGER UNIQUE
SchemaD == ColumnDef(ColV, TypeInteger, <<>>) \o Comma
           \o ColumnDef(ColV, TypeInteger, <<" ">> \o KwUnique)

CreateTableStmt(table, columns_sql) ==
    [cmd |-> "CREATE TABLE", layout |-> "line", table |-> table, columns_sql |-> columns_sql]

InsertStmt(table, columns_str, values_str) ==
    [cmd |-> "INSERT", layout |-> "line", table |-> table,
     columns_str |-> columns_str, values_str |-> values_str]

SelectStmt(select_clause, from_clause, where_clause, order_clause) ==
    [cmd |-> "SELECT", layout |-> "line", select_clause |-> select_clause,
     from_clause |-> from_clause, where_clause |-> where_clause,
     order_clause |-> order_clause]

KwOrderBy == <<" ", "O", "R", "D", "E", "R", " ", "B", "Y", " ">>

\* SELECT * FROM <from_clause> WHERE <text> as the pattern of SELECT matches
\* it: the lazy WHERE group ends at the first " ORDER BY " (in any case) that
\* leaves it non-empty, and what follows is the ORDER BY group
SelectWhere(from_clause, text) ==
    LET cut(p) == IF p = 0 THEN SelectStmt(Star, from_clause, text, <<>>)
                  ELSE SelectStmt(Star, from_clause, Slice(text, 1, p - 1),
                                  Slice(text, p + Len(KwOrderBy), Len(text)))
    IN  cut(FindFrom(Upper(text), KwOrderBy, 2))

UpdateStmt(table, set_clause, where_clause) ==
    [cmd |-> "UPDATE", layout |-> "line", table |-> table,
     set_clause |-> set_clause, where_clause |-> where_clause]

DeleteStmt(table, where_clause) ==
    [cmd |-> "DELETE", layout |-> "line", table |-> table, where_clause |-> where_clause]

DropTableStmt(table) == [cmd |-> "DROP TABLE", layout |-> "line", table |-> table]

CreateIndexStmt(index, table, columns_str) ==
    [cmd |-> "CREATE INDEX", layout |-> "line", index |-> index, table |-> table,
     columns_str |-> columns_str]

PlainStmt(cmd, layout) == [cmd |-> cmd, layout |-> layout]

WhereId(lit) == ColId \o Equals \o lit

CreateTableStmts == {CreateTableStmt(TableT, c) : c \in {SchemaA, SchemaB, SchemaC, SchemaD}}

\* VALUES (1, 1), (2, 1), (2, 2), (1, NULL), (NULL, 1) without a column list;
\* (id) VALUES (1); (v) VALUES (2); (id, z) VALUES (2, 1)
InsertStmts ==
    {InsertStmt(TableT, <<>>, p[1] \o Comma \o p[2]) :
        p \in {<<One, One>>, <<Two, One>>, <<Two, Two>>, <<One, KwNull>>, <<KwNull, One>>}}
    \cup {InsertStmt(TableT, ColId, One), InsertStmt(TableT, ColV, Two),
          InsertStmt(TableT, ColId \o Comma \o ColZ, Two \o Comma \o One)}

\* SET v = 1; SET v = 2 WHERE id = 1; SET v = NULL WHERE id = 1;
\* SET id = 2 WHERE id = 1; SET z = 1; SET v=2 WHERE id=1
UpdateStmts ==
    {UpdateStmt(TableT, ColV \o Equals \o One, <<>>),
     UpdateStmt(TableT, ColV \o Equals \o Two, WhereId(One)),
     UpdateStmt(TableT, ColV \o Equals \o KwNull, WhereId(One)),
     UpdateStmt(TableT, ColId \o Equals \o Two, WhereId(One)),
     UpdateStmt(TableT, ColZ \o Equals \o One, <<>>),
     UpdateStmt(TableT, ColV \o <<"=">> \o Two, ColId \o <<"=">> \o One)}

DeleteStmts == {DeleteStmt(TableT, <<>>), DeleteStmt(TableT, WhereId(One))}

SelectStmts == {SelectStmt(Star, TableT, <<>>, <<>>), SelectStmt(Star, TableT, WhereId(One), <<>>)}

DropTableStmts == {DropTableStmt(TableT)}

CreateIndexStmts == {CreateIndexStmt(<<"i", "x">>, TableT, ColId \o Comma \o ColV)}

UnsupportedStmts == {PlainStmt("VACUUM", "line")}

\* the statements of the index runs
IndexStmts ==
    {CreateTableStmt(TableT, SchemaA),
     InsertStmt(TableT, <<>>, One \o Comma \o One),
     InsertStmt(TableT, <<>>, Two \o Comma \o Two),
     InsertStmt(TableT, ColId, Two),
     InsertStmt(TableT, ColV, Two),
     UpdateStmt(TableT, ColV \o Equals \o Two, WhereId(One)),
     DeleteStmt(TableT, WhereId(One))}

\* the statements of the transaction runs
TxnStmts ==
    {CreateTableStmt(TableT, SchemaA),
     InsertStmt(TableT, <<>>, One \o Comma \o One),
     InsertStmt(TableT, <<>>, Two \o Comma \o One),
     [UpdateStmt(TableT, ColV \o Equals \o Two, WhereId(One)) EXCEPT !.layout = "lines"],
     PlainStmt("VACUUM", "line")}

\* the statements of the rollback runs; UPDATE t SET v = 3 stops at the second
\* of two rows, after it has written the first
SnapshotStmts ==
    {CreateTableStmt(TableT, SchemaA),
     InsertStmt(TableT, <<>>, One \o Comma \o One),
     InsertStmt(TableT, <<>>, Two \o Comma \o Two),
     UpdateStmt(TableT, ColV \o Equals \o Three, <<>>),
     DeleteStmt(TableT, WhereId(One))}

\* the statements of the predicate runs: a table of rows with and without NULL
PredicateStmts ==
    {CreateTableStmt(TableT, SchemaA),
     InsertStmt(TableT, <<>>, One \o Comma \o One),
     InsertStmt(TableT, <<>>, Two \o Comma \o Two),
     InsertStmt(TableT, <<>>, Two \o Comma \o KwNull),
     InsertStmt(TableT, <<>>, One \o Comma \o Two)}

\* id = 1; v = 2; id = 1 OR v = 2; id = 2 AND v = 2; v > 1; v != 1; id=1;
\* v IS NULL; v = '1 ORDER BY id'
Predicates ==
    {WhereId(One),
     ColV \o Equals \o Two,
     WhereId(One) \o Spaced(KwOr) \o ColV \o Equals \o Two,
     WhereId(Two) \o Spaced(KwAnd) \o ColV \o Equals \o Two,
     ColV \o Spaced(<<">">>) \o One,
     ColV \o Spaced(<<"!", "=">>) \o One,
     ColId \o <<"=">> \o One,
     ColV \o <<" ">> \o Operators[8],
     ColV \o Equals \o <<"'">> \o One \o KwOrderBy \o ColId \o <<"'">>}

----------------------------------------------------------------------------
(* The state machine *)

NoStatement == PlainStmt("", "line")
NoResult    == [kind |-> "none", msg |-> "", n |-> 0, rows |-> <<>>, exc |-> ""]

\* SimpleRDBMS.__init__ on an empty data directory
Init ==
    /\ tables = <<>>
    /\ disk = <<>>
    /\ in_transaction = FALSE
    /\ transaction_log = <<>>
    /\ stmt = NoStatement
    /\ result = NoResult

\* a table of the model holds MaxRows rows at most
RowsHaveRoom(s) == s.table \in DOMAIN tables => Len(tables[s.table].rows) < MaxRows

CreateTable == \E s \in CreateTableStmts : stmt' = s /\ ExecuteSql(s)

Insert == \E s \in InsertStmts : RowsHaveRoom(s) /\ stmt' = s /\ ExecuteSql(s)

Select == \E s \in SelectStmts : stmt' = s /\ ExecuteSql(s)

Update == \E s \in UpdateStmts : stmt' = s /\ ExecuteSql(s)

Delete == \E s \in DeleteStmts : stmt' = s /\ ExecuteSql(s)

DropTable == \E s \in DropTableStmts : stmt' = s /\ ExecuteSql(s)

Unsupported == \E s \in UnsupportedStmts : stmt' = s /\ ExecuteSql(s)

\* a BEGIN that starts a log only when no transaction is open
BeginNested ==
    /\ stmt' = PlainStmt("BEGIN", "line")
    /\ in_transaction' = TRUE
    /\ transaction_log' = IF in_transaction THEN Logged(PlainStmt("BEGIN", "line")) ELSE <<>>
    /\ result' = Status("Transaction started", 0)
    /\ UNCHANGED <<tables, disk>>

\* BEGIN: logged if a transaction is open, then _begin_transaction
Begin ==
    /\ stmt' = PlainStmt("BEGIN", "line")
    /\ in_transaction' = TRUE
    /\ transaction_log' = <<>>
    /\ result' = Status("Transaction started", 0)
    /\ UNCHANGED <<tables, disk>>

\* COMMIT: logged if a transaction is open, then _commit_transaction; the
\* result reports the length of the copy of the log
Commit ==
    /\ stmt' = PlainStmt("COMMIT", "line")
    /\ result' = Status("Transaction committed",
                        Len(CommitTransaction(Logged(PlainStmt("COMMIT", "line")))))
    /\ in_transaction' = FALSE
    /\ transaction_log' = <<>>
    /\ UNCHANGED <<tables, disk>>

\* a ROLLBACK that closes the transaction and reloads nothing
RollbackInMemory ==
    /\ stmt' = PlainStmt("ROLLBACK", "line")
    /\ in_transaction' = FALSE
    /\ transaction_log' = <<>>
    /\ result' = Status("Transaction rolled back", 0)
    /\ UNCHANGED <<tables, disk>>

\* ROLLBACK: logged if a transaction is open, then _rollback_transaction
Rollback ==
    /\ stmt' = PlainStmt("ROLLBACK", "line")
    /\ in_transaction' = FALSE
    /\ transaction_log' = <<>>
    /\ tables' = LoadTables(tables, disk)
    /\ result' = Status("Transaction rolled back", 0)
    /\ UNCHANGED disk

\* the statements of a caller that opens no transaction
Next ==
    \/ CreateTable
    \/ Insert
    \/ Select
    \/ Update
    \/ Delete
    \/ DropTable
    \/ Unsupported
    \/ Commit
    \/ Rollback

Spec == Init /\ [][Next]_vars

\* the transaction runs: a few statements and the transaction commands; the
\* log of the model is bounded, a full log takes transaction commands only
LogHasRoom == in_transaction => Len(transaction_log) < MaxLog

TxnStatement == \E s \in TxnStmts : LogHasRoom /\ stmt' = s /\ ExecuteSql(s)

NextTxn ==
    \/ TxnStatement
    \/ Begin
    \/ Commit
    \/ Rollback

SpecTxn == Init /\ [][NextTxn]_vars

\* the index runs: explicit indexes over a table of a few rows
IndexStatement ==
    \E s \in IndexStmts :
        /\ s.cmd = "INSERT" => RowsHaveRoom(s)
        /\ stmt' = s
        /\ ExecuteSql(s)

CreateIndex == \E s \in CreateIndexStmts : stmt' = s /\ ExecuteSql(s)

\* CREATE INDEX __primary ON t (v); CREATE INDEX ix ON t (v): statements that
\* name an index the table may already have
RenamedIndexStmts ==
    {CreateIndexStmt(PrimaryName, TableT, ColV),
     CreateIndexStmt(<<"i", "x">>, TableT, ColV)}

CreateIndexAgain == \E s \in RenamedIndexStmts : stmt' = s /\ ExecuteSql(s)

NextIndex ==
    \/ IndexStatement
    \/ CreateIndex
    \/ CreateIndexAgain

SpecIndex == Init /\ [][NextIndex]_vars

\* the rollback runs: mutations inside and outside a transaction, and ROLLBACK
SnapshotStatement ==
    \E s \in SnapshotStmts :
        /\ LogHasRoom
        /\ s.cmd = "INSERT" => RowsHaveRoom(s)
        /\ stmt' = s
        /\ ExecuteSql(s)

NextSnapshot ==
    \/ SnapshotStatement
    \/ Begin
    \/ Rollback

SpecSnapshot == Init /\ [][NextSnapshot]_vars

\* the predicate runs: DELETE under a WHERE clause of each form
PredicateStatement ==
    \E s \in PredicateStmts :
        /\ s.cmd = "INSERT" => RowsHaveRoom(s)
        /\ stmt' = s
        /\ ExecuteSql(s)

PredicateDelete ==
    \E p \in Predicates \cup {<<>>} :
        stmt' = DeleteStmt(TableT, p) /\ ExecuteSql(DeleteStmt(TableT, p))

NextPredicate ==
    \/ PredicateStatement
    \/ PredicateDelete

SpecPredicate == Init /\ [][NextPredicate]_vars


ColB == <<"b">>

\* id INTEGER, v REAL, b BOOLEAN
SchemaT == ColumnDef(ColId, TypeInteger, <<>>) \o Comma \o ColumnDef(ColV, TypeReal, <<>>)
           \o Comma \o ColumnDef(ColB, TypeBoolean, <<>>)

\* the literals 1, 1.5, TRUE and 'a': one of each kind of value
TypedLiterals == {One, <<"1", ".", "5">>, KwTrue, <<"'", "a", "'">>}

\* VALUES (x, y, z) for every choice of the three literals
TypedInserts ==
    {InsertStmt(TableT, <<>>, x \o Comma \o y \o Comma \o z) :
        x \in TypedLiterals, y \in TypedLiterals, z \in TypedLiterals}

\* the typed runs: a table with a column of each checked type, and inserts
TypedCreate ==
    /\ stmt' = CreateTableStmt(TableT, SchemaT)
    /\ ExecuteSql(CreateTableStmt(TableT, SchemaT))

TypedInsert == \E s \in TypedInserts : RowsHaveRoom(s) /\ stmt' = s /\ ExecuteSql(s)

NextTyped ==
    \/ TypedCreate
    \/ TypedInsert

SpecTyped == Init /\ [][NextTyped]_vars

TableU == <<"u">>
TableW == <<"w">>

\* id INTEGER
SchemaJ == ColumnDef(ColId, TypeInteger, <<>>)

\* FROM clauses: t JOIN u; t JOIN u ON t.id = u.id; t JOIN u JOIN w
FromTU   == TableT \o Spaced(KwJoin) \o TableU
FromTUOn == FromTU \o KwOn \o Dotted(TableT, ColId) \o Equals \o Dotted(TableU, ColId)
FromTUW  == FromTU \o Spaced(KwJoin) \o TableW

\* the select lists id, u.id; id, u.id, w.id; id, z, u.z; id, z, t.id
ListTU  == ColId \o Comma \o Dotted(TableU, ColId)
ListTUW == ListTU \o Comma \o Dotted(TableW, ColId)
ListZ   == ColId \o Comma \o ColZ \o Comma \o Dotted(TableU, ColZ)
ListTZ  == ColId \o Comma \o ColZ \o Comma \o Dotted(TableT, ColId)

\* CREATE TABLE x (id INTEGER) and INSERT INTO x VALUES (1), (2), for x of t, u, w
JoinTableStmts ==
    {CreateTableStmt(x, SchemaJ) : x \in {TableT, TableU, TableW}}
    \cup {InsertStmt(x, <<>>, v) : x \in {TableT, TableU, TableW}, v \in {One, Two}}

\* the SELECT statements over one, two and three tables
JoinSelectStmts ==
    {SelectStmt(ListTU, FromTU, <<>>, <<>>),
     SelectStmt(Star, FromTUOn, <<>>, <<>>),
     SelectStmt(ListTU, FromTUOn, <<>>, <<>>),
     SelectStmt(ListTUW, FromTUW, <<>>, <<>>),
     SelectStmt(ListZ, FromTU, <<>>, <<>>),
     SelectStmt(ListTZ, TableT, <<>>, <<>>)}

\* the join runs: three tables of one column, and SELECT over their joins
JoinStatement ==
    \E s \in JoinTableStmts :
        /\ s.cmd = "INSERT" => RowsHaveRoom(s)
        /\ stmt' = s
        /\ ExecuteSql(s)

JoinSelect == \E s \in JoinSelectStmts : stmt' = s /\ ExecuteSql(s)

NextJoin ==
    \/ JoinStatement
    \/ JoinSelect

SpecJoin == Init /\ [][NextJoin]_vars

\* the comparisons id = 1; v = 2; v > 1
Comparisons ==
    {WhereId(One),
     ColV \o Equals \o Two,
     ColV \o Spaced(<<">">>) \o One}

\* the predicate texts A OR B AND C and A AND B OR C
OrAnd(a, b, c) == a \o Spaced(KwOr) \o b \o Spaced(KwAnd) \o c
AndOr(a, b, c) == a \o Spaced(KwAnd) \o b \o Spaced(KwOr) \o c

\* CREATE TABLE t (SchemaA); INSERT (1, 1), (2, 2), (2, NULL)
LogicStmts ==
    {CreateTableStmt(TableT, SchemaA),
     InsertStmt(TableT, <<>>, One \o Comma \o One),
     InsertStmt(TableT, <<>>, Two \o Comma \o Two),
     InsertStmt(TableT, <<>>, Two \o Comma \o KwNull)}

\* the predicate-logic runs: SELECT under mixed AND/OR texts
LogicStatement ==
    \E s \in LogicStmts :
        /\ s.cmd = "INSERT" => RowsHaveRoom(s)
        /\ stmt' = s
        /\ ExecuteSql(s)

LogicSelect ==
    \E a \in Comparisons, b \in Comparisons, c \in Comparisons :
        \E w \in {OrAnd(a, b, c), AndOr(a, b, c)} :
            /\ stmt' = SelectStmt(Star, TableT, w, <<>>)
            /\ ExecuteSql(SelectStmt(Star, TableT, w, <<>>))

\* c IS NULL and c IS NOT NULL, for c of id, v
NullTests == {c \o <<" ">> \o Operators[o] : c \in {ColId, ColV}, o \in {8, 9}}

NullSelect ==
    \E w \in NullTests :
        /\ stmt' = SelectStmt(Star, TableT, w, <<>>)
        /\ ExecuteSql(SelectStmt(Star, TableT, w, <<>>))

NextLogic ==
    \/ LogicStatement
    \/ LogicSelect

SpecLogic == Init /\ [][NextLogic]_vars

\* CREATE TABLE t (SchemaA); INSERT (1, 1), (2, 2), (2, NULL), (1, 2); (id) VALUES (2)
NullStmts == PredicateStmts \cup {InsertStmt(TableT, ColId, Two)}

\* the null-test runs: rows with a value, a null and no value for v
NullStatement ==
    \E s \in NullStmts :
        /\ s.cmd = "INSERT" => RowsHaveRoom(s)
        /\ stmt' = s
        /\ ExecuteSql(s)

NextNull ==
    \/ NullStatement
    \/ NullSelect

SpecNull == Init /\ [][NextNull]_vars

MaxLiteralRows == 1

\* v TEXT: a column whose type admits a value of every kind
SchemaL == ColumnDef(ColV, TypeText, <<>>)

\* the literals 5, 5.0, 1.5, TRUE, true, NULL, null, 'a', '5'
LiteralTexts ==
    {<<"5">>, <<"5", ".", "0">>, <<"1", ".", "5">>, KwTrue, <<"t", "r", "u", "e">>,
     KwNull, <<"n", "u", "l", "l">>, <<"'", "a", "'">>, <<"'", "5", "'">>}

\* the literal runs: each literal as an INSERT value, as an UPDATE SET value
\* and as the right side of a WHERE comparison
LiteralCreate ==
    /\ stmt' = CreateTableStmt(TableT, SchemaL)
    /\ ExecuteSql(CreateTableStmt(TableT, SchemaL))

LiteralInsert ==
    \E l \in LiteralTexts :
        /\ TableT \in DOMAIN tables => Len(tables[TableT].rows) < MaxLiteralRows
        /\ stmt' = InsertStmt(TableT, <<>>, l)
        /\ ExecuteSql(InsertStmt(TableT, <<>>, l))

LiteralUpdate ==
    \E l \in LiteralTexts :
        /\ stmt' = UpdateStmt(TableT, ColV \o Equals \o l, <<>>)
        /\ ExecuteSql(UpdateStmt(TableT, ColV \o Equals \o l, <<>>))

LiteralSelect ==
    \E l \in LiteralTexts :
        /\ stmt' = SelectStmt(Star, TableT, ColV \o Equals \o l, <<>>)
        /\ ExecuteSql(SelectStmt(Star, TableT, ColV \o Equals \o l, <<>>))

NextLiteral ==
    \/ LiteralCreate
    \/ LiteralInsert
    \/ LiteralUpdate
    \/ LiteralSelect

SpecLiteral == Init /\ [][NextLiteral]_vars

\* sql_upper.startswith(prefix)
StartsWith(u, prefix) == OccursAt(u, prefix, 1)

KwBegin    == <<"B", "E", "G", "I", "N">>
KwCommit   == <<"C", "O", "M", "M", "I", "T">>
KwRollback == <<"R", "O", "L", "L", "B", "A", "C", "K">>

\* the prefixes of the data commands, in the order execute_sql tests them
DataPrefixes ==
    <<<<"C", "R", "E", "A", "T", "E", " ", "T", "A", "B", "L", "E">>,
      <<"I", "N", "S", "E", "R", "T">>,
      <<"S", "E", "L", "E", "C", "T">>,
      <<"U", "P", "D", "A", "T", "E">>,
      <<"D", "E", "L", "E", "T", "E">>,
      <<"D", "R", "O", "P", " ", "T", "A", "B", "L", "E">>,
      <<"C", "R", "E", "A", "T", "E", " ", "I", "N", "D", "E", "X">>>>

\* the branch of execute_sql a text takes, u being its upper case: the chain
\* of startswith tests; "" when no prefix matches
Classify(u) ==
    IF \E i \in 1..Len(DataPrefixes) : StartsWith(u, DataPrefixes[i]) THEN "DATA"
    ELSE IF StartsWith(u, KwBegin) THEN "BEGIN"
    ELSE IF StartsWith(u, KwCommit) THEN "COMMIT"
    ELSE IF StartsWith(u, KwRollback) THEN "ROLLBACK"
    ELSE ""

\* a statement given as its text alone
TextStmt(text) == [cmd |-> Classify(Upper(text)), layout |-> "line", text |-> text]

\* execute_sql on a text of one or two words: logged when a transaction is
\* open, then the branch of its prefix; no pattern of a data command matches
\* so short a text
ExecuteText(s) ==
    CASE s.cmd = "BEGIN" ->
           /\ in_transaction' = TRUE
           /\ transaction_log' = <<>>
           /\ result' = Status("Transaction started", 0)
           /\ UNCHANGED <<tables, disk>>
      [] s.cmd = "COMMIT" ->
           /\ result' = Status("Transaction committed", Len(CommitTransaction(Logged(s))))
           /\ in_transaction' = FALSE
           /\ transaction_log' = <<>>
           /\ UNCHANGED <<tables, disk>>
      [] s.cmd = "ROLLBACK" ->
           /\ in_transaction' = FALSE
           /\ transaction_log' = <<>>
           /\ tables' = LoadTables(tables, disk)
           /\ result' = Status("Transaction rolled back", 0)
           /\ UNCHANGED disk
      [] s.cmd = "DATA" ->
           Dispatch(s, Outcome(tables, disk, Raise("ValueError", "Invalid syntax")))
      [] OTHER ->
           Dispatch(s, Outcome(tables, disk, Raise("ValueError", "Unsupported SQL command")))

\* VACUUM; EXPLAIN t; BEGINX; COMMITS; ROLLBACKS; SELECTED; begin; commit;
\* rollback
PlainTexts ==
    {<<"V", "A", "C", "U", "U", "M">>,
     <<"E", "X", "P", "L", "A", "I", "N", " ", "t">>,
     KwBegin \o <<"X">>,
     KwCommit \o <<"S">>,
     KwRollback \o <<"S">>,
     <<"S", "E", "L", "E", "C", "T", "E", "D">>,
     <<"b", "e", "g", "i", "n">>,
     <<"c", "o", "m", "m", "i", "t">>,
     <<"r", "o", "l", "l", "b", "a", "c", "k">>}

\* the statements of the text runs: UPDATE t SET v = 3 changes rows in memory
\* and fails before it saves them when the table has two rows
TextRunStmts ==
    {CreateTableStmt(TableT, SchemaA),
     InsertStmt(TableT, <<>>, One \o Comma \o One),
     InsertStmt(TableT, <<>>, Two \o Comma \o Two),
     UpdateStmt(TableT, ColV \o Equals \o Three, <<>>)}

TextRunStatement ==
    \E s \in TextRunStmts :
        /\ LogHasRoom
        /\ s.cmd = "INSERT" => RowsHaveRoom(s)
        /\ stmt' = s
        /\ ExecuteSql(s)

TextStatement ==
    \E w \in PlainTexts :
        /\ LogHasRoom
        /\ stmt' = TextStmt(w)
        /\ ExecuteText(TextStmt(w))

NextText ==
    \/ TextRunStatement
    \/ TextStatement

SpecText == Init /\ [][NextText]_vars

\* the statements of the runs inside a transaction: those of the rollback
\* runs, DROP TABLE t and CREATE INDEX ix ON t (id, v)
SurviveStmts == SnapshotStmts \cup DropTableStmts \cup CreateIndexStmts

\* a caller that mutates only inside an open transaction, and rolls back
SurviveStatement ==
    \E s \in SurviveStmts :
        /\ in_transaction
        /\ LogHasRoom
        /\ s.cmd = "INSERT" => RowsHaveRoom(s)
        /\ stmt' = s
        /\ ExecuteSql(s)

NextSurvive ==
    \/ SurviveStatement
    \/ Begin
    \/ Rollback

SpecSurvive == Init /\ [][NextSurvive]_vars

----------------------------------------------------------------------------
(* ORDER BY: a table without constraints, rows in any order, sorted SELECTs *)

\* id INTEGER, v INTEGER
SchemaO == ColumnDef(ColId, TypeInteger, <<>>) \o Comma \o ColumnDef(ColV, TypeInteger, <<>>)

\* CREATE TABLE t (SchemaO); INSERT (1, 2), (2, 1), (1, 1), (2, NULL)
OrderStmts ==
    {CreateTableStmt(TableT, SchemaO),
     InsertStmt(TableT, <<>>, One \o Comma \o Two),
     InsertStmt(TableT, <<>>, Two \o Comma \o One),
     InsertStmt(TableT, <<>>, One \o Comma \o One),
     InsertStmt(TableT, <<>>, Two \o Comma \o KwNull)}

\* the select lists * and id; no WHERE and WHERE id = 2; ORDER BY v; id, v; z
OrderSelects ==
    {SelectStmt(c, TableT, w, o) :
        c \in {Star, ColId}, w \in {<<>>, WhereId(Two)},
        o \in {ColV, ColId \o Comma \o ColV, ColZ}}

OrderStatement ==
    \E s \in OrderStmts :
        /\ s.cmd = "INSERT" => RowsHaveRoom(s)
        /\ stmt' = s
        /\ ExecuteSql(s)

OrderSelect == \E s \in OrderSelects : stmt' = s /\ ExecuteSql(s)

NextOrder ==
    \/ OrderStatement
    \/ OrderSelect

SpecOrder == Init /\ [][NextOrder]_vars

----------------------------------------------------------------------------
(* The transaction commands in any state: the statements of the rollback runs
   with BEGIN, COMMIT and ROLLBACK submitted whether or not a transaction is
   open *)

NextCommands ==
    \/ SnapshotStatement
    \/ Begin
    \/ Commit
    \/ Rollback

SpecCommands == Init /\ [][NextCommands]_vars

----------------------------------------------------------------------------
(* Reads: SELECTs that complete and SELECTs that fail, with and without an
   open transaction *)

\* CREATE TABLE t (SchemaO); INSERT (1, 2), (2, NULL)
ReadStmts ==
    {CreateTableStmt(TableT, SchemaO),
     InsertStmt(TableT, <<>>, One \o Comma \o Two),
     InsertStmt(TableT, <<>>, Two \o Comma \o KwNull)}

\* SELECT id FROM t ORDER BY v; SELECT * FROM t WHERE id = 2; SELECT * FROM u
ReadSelects ==
    {SelectStmt(ColId, TableT, <<>>, ColV),
     SelectStmt(Star, TableT, WhereId(Two), <<>>),
     SelectStmt(Star, TableU, <<>>, <<>>)}

ReadStatement ==
    \E s \in ReadStmts :
        /\ LogHasRoom
        /\ s.cmd = "INSERT" => RowsHaveRoom(s)
        /\ stmt' = s
        /\ ExecuteSql(s)

ReadSelect == \E s \in ReadSelects : LogHasRoom /\ stmt' = s /\ ExecuteSql(s)

NextRead ==
    \/ ReadStatement
    \/ ReadSelect
    \/ Begin
    \/ Commit

SpecRead == Init /\ [][NextRead]_vars
----------------------------------------------------------------------------
(* The vocabulary of the properties *)

\* the tuple of the row's values over the columns of an index
FullKey(row, column_names) == [i \in 1..Len(column_names) |-> row[column_names[i]]]

\* every listed position holds a row whose full key is the key it is listed
\* under, and every row that has the columns is listed under its full key
IndexConsistent(table, idx) ==
    /\ \A k \in DOMAIN idx.entries : \A i \in 1..Len(idx.entries[k]) :
           /\ idx.entries[k][i] + 1 \in 1..Len(table.rows)
           /\ HasAll(table.rows[idx.entries[k][i] + 1], idx.column_names)
           /\ KeyEq(FullKey(table.rows[idx.entries[k][i] + 1], idx.column_names), k)
    /\ \A p \in 1..Len(table.rows) :
           HasAll(table.rows[p], idx.column_names) =>
               \E k \in DOMAIN idx.entries :
                   /\ KeyEq(k, FullKey(table.rows[p], idx.column_names))
                   /\ \E i \in 1..Len(idx.entries[k]) : idx.entries[k][i] = p - 1

\* the literal that INSERT and WHERE coerce to the value
LiteralOf(value) ==
    CASE value.kind = "none" -> KwNull
      [] value.kind = "text" -> value.txt
      [] value.kind = "bool" -> IF value.num = 0 THEN KwFalse ELSE KwTrue
      [] value.kind = "int"  -> DecimalText(value.num \div 10)
      [] value.kind = "real" -> DecimalText(value.num \div 10) \o <<".">>
                                \o DecimalText(value.num % 10)

\* the names an INSERT statement gives its values, and the row it builds
StatementColumns(table, s) ==
    IF Len(s.columns_str) > 0 THEN CommaList(s.columns_str)
    ELSE [i \in 1..Len(table.columns) |-> table.columns[i].name]

StatementRow(table, s) ==
    MakeRow(StatementColumns(table, s), Literals(CommaList(s.values_str)))

\* the statement is an INSERT into a table of the catalog that gives as many
\* values as names
IsInsert(s, t) ==
    /\ s.cmd = "INSERT"
    /\ s.table \in DOMAIN t
    /\ Len(StatementColumns(t[s.table], s)) = Len(CommaList(s.values_str))

\* the row repeats, in a unique or primary-key column, a non-null value that
\* a row of the table holds
Collides(table, row) ==
    \E c \in 1..Len(table.columns) :
        /\ table.columns[c].is_unique \/ table.columns[c].is_primary
        /\ table.columns[c].name \in DOMAIN row
        /\ row[table.columns[c].name].kind # "none"
        /\ \E i \in 1..Len(table.rows) :
               PyEq(RowGet(table.rows[i], table.columns[c].name), row[table.columns[c].name])

\* the row has no key for a column declared NOT NULL
OmitsNotNull(table, row) ==
    \E c \in 1..Len(table.columns) :
        ~table.columns[c].is_nullable /\ table.columns[c].name \notin DOMAIN row

\* the row has no key, or None, for a column flagged primary
LacksPrimary(table, row) ==
    \E c \in 1..Len(table.columns) :
        /\ table.columns[c].is_primary
        /\ RowGet(row, table.columns[c].name).kind = "none"

\* SELECT * FROM table
SelectAll(t, d, table) == ExecuteSelect(t, d, SelectStmt(Star, table, <<>>, <<>>)).result

\* SELECT * FROM table WHERE <primary key> = <the key of the row>
SelectByKey(t, d, table, row) ==
    ExecuteSelect(t, d, SelectStmt(Star, table,
        t[table].primary_key_column[1].name \o Equals
            \o LiteralOf(RowGet(row, t[table].primary_key_column[1].name)),
        <<>>)).result

----------------------------------------------------------------------------
(* The properties *)

\* C1: index consistency.  After any sequence of INSERT, UPDATE and DELETE
\* statements, successful or failing, every index of every table lists
\* position p under a key exactly when the row at p has that key as its full
\* tuple over the index columns: no stale position, no missing position, no
\* key that is not the full tuple of a current row.
IndexConsistency ==
    \A n \in DOMAIN tables : \A x \in DOMAIN tables[n].indexes :
        IndexConsistent(tables[n], tables[n].indexes[x])

\* C2: insert/read round trip.  After a successful INSERT of a row r into a
\* table with a primary-key column, SELECT * FROM the table WHERE the primary
\* key = r's key returns exactly one row, equal to r.
InsertReadRoundTrip ==
    (/\ stmt.cmd = "INSERT"
     /\ result.kind = "status"
     /\ tables[stmt.table].primary_key_column # <<>>)
    => SelectByKey(tables, disk, stmt.table,
                   tables[stmt.table].rows[Len(tables[stmt.table].rows)])
       = Rows(<<tables[stmt.table].rows[Len(tables[stmt.table].rows)]>>)

\* C3: uniqueness on INSERT.  An INSERT whose row repeats, in a unique or
\* primary-key column, a non-null value that a row of the table holds fails
\* with an error; the rows of the table are afterwards what they were, and
\* SELECT * returns what it returned before.
UniquenessOnInsert ==
    [][(IsInsert(stmt', tables) /\ Collides(tables[stmt'.table], StatementRow(tables[stmt'.table], stmt')))
       => /\ IsError(result')
          /\ stmt'.table \in DOMAIN tables'
          /\ tables'[stmt'.table].rows = tables[stmt'.table].rows
          /\ SelectAll(tables', disk', stmt'.table) = SelectAll(tables, disk, stmt'.table)]_vars

\* a refused INSERT of a duplicate value has happened
DuplicateInsertRefused ==
    /\ IsInsert(stmt, tables)
    /\ Collides(tables[stmt.table], StatementRow(tables[stmt.table], stmt))
    /\ result = Raise("ValueError", "Duplicate value for unique column")
    /\ SelectAll(tables, disk, stmt.table).rows # <<>>

\* C4: nullability on INSERT.  An INSERT whose row omits a column declared
\* NOT NULL fails with an error and leaves the rows and indexes of every table
\* and every persisted snapshot unchanged.
NullabilityOnInsert ==
    [][(IsInsert(stmt', tables) /\ OmitsNotNull(tables[stmt'.table], StatementRow(tables[stmt'.table], stmt')))
       => IsError(result') /\ tables' = tables /\ disk' = disk]_vars

\* a refused INSERT that omits a NOT NULL column has happened
OmittingInsertRefused ==
    /\ IsInsert(stmt, tables)
    /\ OmitsNotNull(tables[stmt.table], StatementRow(tables[stmt.table], stmt))
    /\ result = Raise("ValueError", "Column cannot be NULL")

\* C5: non-null invariant.  In every reachable state every row of every table
\* has a present, non-null value for every column declared NOT NULL.
NonNullInvariant ==
    \A n \in DOMAIN tables : \A p \in 1..Len(tables[n].rows) :
        \A c \in 1..Len(tables[n].columns) :
            ~tables[n].columns[c].is_nullable =>
                /\ tables[n].columns[c].name \in DOMAIN tables[n].rows[p]
                /\ tables[n].rows[p][tables[n].columns[c].name].kind # "none"

\* C6: uniqueness invariant.  In every reachable state, the state a failed
\* multi-row UPDATE leaves and the state after ROLLBACK included, every unique
\* or primary-key column has pairwise-distinct non-null values across the rows
\* of its table.
UniquenessInvariant ==
    \A n \in DOMAIN tables : \A c \in 1..Len(tables[n].columns) :
        (tables[n].columns[c].is_unique \/ tables[n].columns[c].is_primary) =>
            \A p, q \in 1..Len(tables[n].rows) :
                (/\ p < q
                 /\ RowGet(tables[n].rows[p], tables[n].columns[c].name).kind # "none"
                 /\ RowGet(tables[n].rows[q], tables[n].columns[c].name).kind # "none")
                => ~PyEq(tables[n].rows[p][tables[n].columns[c].name],
                         tables[n].rows[q][tables[n].columns[c].name])

\* C7: row-key invariant.  In every reachable state the keys of every stored
\* row are among the declared column names of its table.
RowKeyInvariant ==
    \A n \in DOMAIN tables : \A p \in 1..Len(tables[n].rows) :
        DOMAIN tables[n].rows[p]
            \subseteq {tables[n].columns[c].name : c \in 1..Len(tables[n].columns)}

\* C8: a primary-key column is implicitly non-nullable.  An INSERT that omits
\* a primary-key column, or gives it NULL, fails with an error and leaves the
\* table unchanged.
PrimaryKeyNotNullable ==
    [][(IsInsert(stmt', tables) /\ LacksPrimary(tables[stmt'.table], StatementRow(tables[stmt'.table], stmt')))
       => IsError(result') /\ tables' = tables]_vars

\* C9: at most one column per table is primary.  In every reachable catalog
\* no table has two columns flagged primary.
AtMostOnePrimary ==
    \A n \in DOMAIN tables :
        Cardinality({c \in 1..Len(tables[n].columns) : tables[n].columns[c].is_primary}) <= 1

\* C10: transaction log content.  While a transaction is open the log holds
\* the text of every statement executed since its BEGIN, in execution order,
\* with no other entries: a statement executed in an open transaction is
\* appended to the log as its normalized text and nothing else changes the
\* log; after BEGIN, COMMIT or ROLLBACK returns, the log is empty; outside a
\* transaction nothing is logged.
TransactionLogContent ==
    [][/\ stmt'.cmd = "BEGIN" => in_transaction' /\ transaction_log' = <<>>
       /\ stmt'.cmd \in {"COMMIT", "ROLLBACK"} => ~in_transaction' /\ transaction_log' = <<>>
       /\ stmt'.cmd \notin {"BEGIN", "COMMIT", "ROLLBACK"} =>
              /\ in_transaction' = in_transaction
              /\ transaction_log' = IF in_transaction
                                    THEN transaction_log \o <<Normalize(stmt')>>
                                    ELSE <<>>]_vars

\* an open transaction whose log holds two different statements, the second
\* one normalized from a text of several lines
TwoStatementsLogged ==
    /\ in_transaction
    /\ Len(transaction_log) = 2
    /\ transaction_log[1].cmd = "INSERT"
    /\ transaction_log[2].cmd = "UPDATE"
    /\ stmt.layout = "lines"
    /\ transaction_log[2] = Normalize(stmt)

\* C11: COMMIT count.  A COMMIT issued while a transaction is open returns an
\* operations count equal to the length of the log as it stood before the
\* COMMIT was received: the number of statements executed since the BEGIN.
CommitCount ==
    [][(stmt'.cmd = "COMMIT" /\ in_transaction) => result'.n = Len(transaction_log)]_vars

\* C12: log-after-apply ordering.  While a transaction is open the log never
\* holds a statement whose effect has not been applied: a statement that
\* fails with an error leaves the log as it was.
LogAfterApply ==
    [][(in_transaction /\ IsError(result')) => transaction_log' = transaction_log]_vars

\* the statements that mutate the rows of a table
Mutations == {"INSERT", "UPDATE", "DELETE"}

RollbackReloads ==
    [][stmt'.cmd = "ROLLBACK"
       => /\ ~in_transaction'
          /\ \A n \in DOMAIN tables' :
                 /\ n \in DOMAIN disk'
                 /\ tables'[n].rows = disk'[n].rows
                 /\ tables'[n].indexes = disk'[n].indexes]_vars

\* a ROLLBACK has returned, the catalog holds a table of two rows, and every
\* table is its snapshot
CatalogReloaded ==
    /\ stmt.cmd = "ROLLBACK"
    /\ ~in_transaction
    /\ TableT \in DOMAIN tables
    /\ Len(tables[TableT].rows) = 2
    /\ tables = disk

\* the two sides of a WHERE clause of the form pk = k: the name and the value
WhereName(s)  == Strip(Split1(s.where_clause, <<"=">>)[1])
WhereValue(s) == Coerce(StripQuotes(Strip(Split1(s.where_clause, <<"=">>)[2])))

\* the statement is UPDATE t SET c = v WHERE pk = k, for a table t of the
\* catalog, c a declared column other than the primary key pk, and k the key
\* of a row of the table
IsKeyedUpdate(s, t) ==
    /\ s.cmd = "UPDATE"
    /\ s.table \in DOMAIN t
    /\ Len(Split1(s.where_clause, <<"=">>)) = 2
    /\ Len(Updates(s.set_clause)) = 1
    /\ t[s.table].primary_key_column # <<>>
    /\ WhereName(s) = t[s.table].primary_key_column[1].name
    /\ Updates(s.set_clause)[1].col # WhereName(s)
    /\ ColumnNamed(t[s.table].columns, Updates(s.set_clause)[1].col) # 0
    /\ WhereValue(s).kind # "none"
    /\ \E p \in 1..Len(t[s.table].rows) :
           PyEq(RowGet(t[s.table].rows[p], WhereName(s)), WhereValue(s))

\* C15: UPDATE then SELECT.  After UPDATE t SET c = v WHERE pk = k on a table
\* that holds a row with primary key k, SELECT c FROM t WHERE pk = k returns
\* exactly one row {c: v}, also with the statements written without blanks
\* around the comparison operator (name='z', id=1).
UpdateThenSelect ==
    [][(IsKeyedUpdate(stmt', tables) /\ ~IsError(result'))
       => ExecuteSelect(tables', disk',
                        SelectStmt(Updates(stmt'.set_clause)[1].col, stmt'.table,
                                   stmt'.where_clause, <<>>)).result
          = Rows(<<[c \in {Updates(stmt'.set_clause)[1].col}
                       |-> Updates(stmt'.set_clause)[1].value]>>)]_vars

\* C16: DELETE then SELECT.  After DELETE FROM T WHERE P completes
\* successfully, SELECT * FROM T WHERE P with the same predicate text returns
\* an empty sequence, for every table state and every predicate P.
DeleteThenSelect ==
    [][(stmt'.cmd = "DELETE" /\ Len(stmt'.where_clause) > 0 /\ ~IsError(result'))
       => ExecuteSelect(tables', disk', SelectWhere(stmt'.table, stmt'.where_clause)).result
          = Rows(<<>>)]_vars

\* C17: no partial mutation on failing DDL or INSERT.  Whenever a CREATE
\* TABLE, CREATE INDEX, DROP TABLE or INSERT fails with an error, the catalog,
\* the rows of every table, its indexes and their entries, and every persisted
\* snapshot are as they were before the statement.
NoPartialMutation ==
    [][(/\ stmt'.cmd \in {"CREATE TABLE", "CREATE INDEX", "DROP TABLE", "INSERT"}
        /\ IsError(result'))
       => tables' = tables /\ disk' = disk]_vars

\* the kinds of value the specification lets a declared type accept; TEXT and
\* DATE columns are not checked
KindMatches(data_type, kind) ==
    CASE data_type = TypeInteger -> kind = "int"
      [] data_type = TypeReal    -> kind \in {"int", "real"}
      [] data_type = TypeBoolean -> kind = "bool"
      [] OTHER -> TRUE

\* the row gives a declared column a non-null value of another kind than its type
Mistyped(table, row) ==
    \E c \in 1..Len(table.columns) :
        /\ table.columns[c].name \in DOMAIN row
        /\ row[table.columns[c].name].kind # "none"
        /\ ~KindMatches(table.columns[c].data_type, row[table.columns[c].name].kind)

\* C18: type validation on INSERT.  An INSERT whose candidate row gives a
\* declared column a present, non-null value whose kind does not match the
\* declared type (INTEGER: integral only; REAL: integral or fractional;
\* BOOLEAN: booleans only) fails with an error.
TypeValidationOnInsert ==
    [][(/\ IsInsert(stmt', tables)
        /\ Mistyped(tables[stmt'.table], StatementRow(tables[stmt'.table], stmt')))
       => IsError(result')]_vars

\* C19: index name collision.  CREATE INDEX with a name that is already an
\* index of the target table, an index created with the table included, fails
\* with an error and leaves that index, its columns and its entries unchanged.
IndexNameCollision ==
    [][(/\ stmt'.cmd = "CREATE INDEX"
        /\ stmt'.table \in DOMAIN tables
        /\ stmt'.index \in DOMAIN tables[stmt'.table].indexes)
       => /\ IsError(result')
          /\ stmt'.table \in DOMAIN tables'
          /\ stmt'.index \in DOMAIN tables'[stmt'.table].indexes
          /\ tables'[stmt'.table].indexes[stmt'.index]
                 = tables[stmt'.table].indexes[stmt'.index]]_vars

\* the SET clause of the statement assigns a column the table does not declare
AssignsUndeclared(s, t) ==
    /\ s.cmd = "UPDATE"
    /\ s.table \in DOMAIN t
    /\ \E u \in 1..Len(Updates(s.set_clause)) :
           ColumnNamed(t[s.table].columns, Updates(s.set_clause)[u].col) = 0

\* C20: UPDATE of an undeclared column.  An UPDATE whose SET clause assigns a
\* column that is not in the schema of the table fails with an error and
\* changes nothing, whatever the rows of the table and the WHERE clause, also
\* when no row matches or the table is empty.
UpdateUndeclaredColumn ==
    [][AssignsUndeclared(stmt', tables)
       => IsError(result') /\ tables' = tables /\ disk' = disk]_vars


----------------------------------------------------------------------------
(* Claims about SELECT: joins and projection *)

\* the tables a SELECT names, in order: the parts of its FROM clause between
\* the JOIN keywords, each without its ON text
JoinedTables(s) ==
    LET names(parts) == [i \in 1..Len(parts) |-> PartTable(parts[i])]
    IN  names(RegexSplit(Strip(s.from_clause), KwJoin))

\* the statement is a SELECT without WHERE or ORDER BY over tables of the catalog
IsPlainSelect(s, t) ==
    /\ s.cmd = "SELECT"
    /\ Len(s.where_clause) = 0
    /\ Len(s.order_clause) = 0
    /\ \A i \in 1..Len(JoinedTables(s)) : JoinedTables(s)[i] \in DOMAIN t

\* the Cartesian product of the rows of the named tables, first table
\* outermost, the keys of table number i >= 2 under the prefix of its name
RECURSIVE CartesianRows(_, _, _, _)
CartesianRows(t, names, i, rows) ==
    IF i > Len(names) THEN rows
    ELSE CartesianRows(t, names, i + 1,
            [p \in 1..(Len(rows) * Len(t[names[i]].rows)) |->
                LET r1 == rows[((p - 1) \div Len(t[names[i]].rows)) + 1]
                    r2 == t[names[i]].rows[((p - 1) % Len(t[names[i]].rows)) + 1]
                IN  [c \in DOMAIN r1 \cup {Dotted(names[i], k) : k \in DOMAIN r2} |->
                        IF c \in DOMAIN r1 THEN r1[c]
                        ELSE r2[CHOOSE k \in DOMAIN r2 : Dotted(names[i], k) = c]]])

CartesianProduct(t, names) == CartesianRows(t, names, 2, t[names[1]].rows)

\* the names a SELECT requests: the declared columns of its first table for *
RequestedColumns(s, t) ==
    IF Strip(s.select_clause) = Star
    THEN [i \in 1..Len(t[JoinedTables(s)[1]].columns) |-> t[JoinedTables(s)[1]].columns[i].name]
    ELSE CommaList(s.select_clause)

\* a row restricted to the requested names it has
Restricted(row, columns) ==
    [c \in {columns[i] : i \in 1..Len(columns)} \cap DOMAIN row |-> row[c]]

\* C21: JOIN is a full cross product over all joined tables.  A SELECT without
\* WHERE over T1 JOIN T2 [JOIN T3 ...] returns one row per element of the
\* Cartesian product of the rows of all the named tables, whatever the ON text,
\* with the keys of the second and every later table under the prefix of the
\* table's name.
JoinIsCrossProduct ==
    [][(IsPlainSelect(stmt', tables) /\ Len(JoinedTables(stmt')) >= 2)
       => /\ result'.kind = "rows"
          /\ Len(result'.rows) = Len(CartesianProduct(tables, JoinedTables(stmt')))
          /\ \A p \in 1..Len(result'.rows) :
                 \A c \in DOMAIN CartesianProduct(tables, JoinedTables(stmt'))[p] :
                     c \in DOMAIN result'.rows[p]
                     => result'.rows[p][c] = CartesianProduct(tables, JoinedTables(stmt'))[p][c]]_vars

\* C22: projection omits absent keys.  For a SELECT with an explicit column
\* list, each result row holds exactly the requested names that are keys of
\* the underlying (possibly joined) row; a requested name the row lacks, plain
\* or dotted, does not appear in the result row, and no error is raised.
ProjectionOmitsAbsent ==
    [][(/\ IsPlainSelect(stmt', tables)
        /\ Len(JoinedTables(stmt')) <= 2
        /\ Strip(stmt'.select_clause) # Star)
       => /\ result'.kind = "rows"
          /\ Len(result'.rows) = Len(CartesianProduct(tables, JoinedTables(stmt')))
          /\ \A p \in 1..Len(result'.rows) :
                 result'.rows[p] = Restricted(CartesianProduct(tables, JoinedTables(stmt'))[p],
                                              CommaList(stmt'.select_clause))]_vars


----------------------------------------------------------------------------
(* Claims about WHERE predicates *)

\* the comparison holds of the row
Holds(row, comparison) == EvaluateComparison(row, comparison) = "true"

\* the rows of a sequence that satisfy a condition, in their order
RowsWhere(rows, Test(_)) == SelectSeq(rows, Test)

\* C23: AND is the outer split.  For every row and all comparisons A, B, C the
\* text A OR B AND C evaluates to (A OR B) AND C and the text A AND B OR C to
\* A AND (B OR C): a SELECT under such a text that completes returns exactly
\* the rows for which that reading holds.
AndIsOuterSplit ==
    [][(stmt'.cmd = "SELECT" /\ result'.kind = "rows" /\ TableT \in DOMAIN tables)
       => \A a \in Comparisons, b \in Comparisons, c \in Comparisons :
            /\ stmt'.where_clause = OrAnd(a, b, c)
               => result'.rows = RowsWhere(tables[TableT].rows,
                      LAMBDA r : (Holds(r, a) \/ Holds(r, b)) /\ Holds(r, c))
            /\ stmt'.where_clause = AndOr(a, b, c)
               => result'.rows = RowsWhere(tables[TableT].rows,
                      LAMBDA r : Holds(r, a) /\ (Holds(r, b) \/ Holds(r, c)))]_vars

\* a SELECT under id = 1 OR v = 2 AND v = 2 over the one row (1, 1) returned
\* nothing: the row satisfies A and not C
OuterAndDecided ==
    /\ stmt.cmd = "SELECT"
    /\ stmt.where_clause = OrAnd(WhereId(One), ColV \o Equals \o Two, ColV \o Equals \o Two)
    /\ TableT \in DOMAIN tables
    /\ Len(tables[TableT].rows) = 1
    /\ Holds(tables[TableT].rows[1], WhereId(One))
    /\ result.kind = "rows"
    /\ result.rows = <<>>

\* the row has no value, or a null value, for the column
IsNullIn(row, c) == c \notin DOMAIN row \/ row[c].kind = "none"

\* C24: IS NULL / IS NOT NULL test presence.  SELECT * FROM T WHERE c IS NULL
\* returns precisely the rows of T whose c is null or absent, and WHERE c IS
\* NOT NULL precisely the rows that have a non-null value for c.
NullTestsPresence ==
    [][(stmt'.cmd = "SELECT" /\ TableT \in DOMAIN tables)
       => \A c \in {ColId, ColV} :
            /\ stmt'.where_clause = c \o <<" ">> \o Operators[8]
               => /\ result'.kind = "rows"
                  /\ result'.rows = RowsWhere(tables[TableT].rows, LAMBDA r : IsNullIn(r, c))
            /\ stmt'.where_clause = c \o <<" ">> \o Operators[9]
               => /\ result'.kind = "rows"
                  /\ result'.rows = RowsWhere(tables[TableT].rows, LAMBDA r : ~IsNullIn(r, c))]_vars


----------------------------------------------------------------------------
(* Claims about literals *)

\* the text is digits with exactly one dot
IsDotted(s) ==
    /\ Cardinality({i \in 1..Len(s) : s[i] = "."}) = 1
    /\ \E i \in 1..Len(s) : IsDigitChar(s[i])
    /\ \A i \in 1..Len(s) : s[i] = "." \/ IsDigitChar(s[i])

\* the value of a literal, by the rule in its order, s being the literal
\* without its quotes
ValueOfText(s) ==
    IF IsDigit(s) THEN IntValue(IntOf(s))
    ELSE IF IsDotted(s) THEN RealValue(RealOf(s))
    ELSE IF Upper(s) \in {KwTrue, KwFalse} THEN BoolValue(Upper(s) = KwTrue)
    ELSE IF s = KwNull THEN NoneValue
    ELSE TextValue(s)

ValueOfLiteral(l) == ValueOfText(StripQuotes(l))

\* C25: literal coercion order.  In INSERT values, UPDATE SET values and WHERE
\* right-hand literals alike a literal becomes an integer if it is all digits,
\* otherwise a real if it is digits with one dot, otherwise a boolean if it is
\* TRUE/FALSE in any case, otherwise null if it is exactly NULL, otherwise the
\* quote-stripped text: the INSERT stores that value, the UPDATE assigns it to
\* every row, and the SELECT returns the rows whose value equals it.
LiteralCoercionOrder ==
    [][(TableT \in DOMAIN tables)
       => \A l \in LiteralTexts :
            /\ stmt' = InsertStmt(TableT, <<>>, l)
               => /\ ~IsError(result')
                  /\ tables'[TableT].rows = Append(tables[TableT].rows,
                                                   [c \in {ColV} |-> ValueOfLiteral(l)])
            /\ stmt' = UpdateStmt(TableT, ColV \o Equals \o l, <<>>)
               => /\ ~IsError(result')
                  /\ tables'[TableT].rows =
                         [i \in 1..Len(tables[TableT].rows) |-> [c \in {ColV} |-> ValueOfLiteral(l)]]
            /\ stmt' = SelectStmt(Star, TableT, ColV \o Equals \o l, <<>>)
               => /\ ~IsError(result')
                  /\ result'.rows = RowsWhere(tables[TableT].rows,
                                              LAMBDA r : PyEq(r[ColV], ValueOfLiteral(l)))]_vars

\* the literal 5 was assigned by an UPDATE to a row that held the real 5.0,
\* and the row now holds the integer
IntegerBeforeReal ==
    /\ stmt = UpdateStmt(TableT, ColV \o Equals \o <<"5">>, <<>>)
    /\ TableT \in DOMAIN tables
    /\ Len(tables[TableT].rows) = 1
    /\ tables[TableT].rows[1][ColV] = IntValue(5)
    /\ result.kind = "status"
    /\ result.n = 1


----------------------------------------------------------------------------
(* Claims about statements outside the grammar *)

\* the leading word of a text and its two leading words, in upper case
LeadingWord(text) == Upper(SplitWords(text)[1])

LeadingWords(text) ==
    IF Len(SplitWords(text)) < 2 THEN LeadingWord(text)
    ELSE LeadingWord(text) \o <<" ">> \o Upper(SplitWords(text)[2])

\* the statement is a text whose leading keyword is none of CREATE TABLE,
\* INSERT, SELECT, UPDATE, DELETE, DROP TABLE, CREATE INDEX, BEGIN, COMMIT,
\* ROLLBACK
HasUnknownKeyword(s) ==
    /\ "text" \in DOMAIN s
    /\ \A i \in 1..Len(DataPrefixes) :
           LeadingWord(s.text) # DataPrefixes[i] /\ LeadingWords(s.text) # DataPrefixes[i]
    /\ LeadingWord(s.text) \notin {KwBegin, KwCommit, KwRollback}

\* C26: unsupported statement.  A statement whose leading keyword is none of
\* the ten supported ones fails with an error naming the statement, and leaves
\* the catalog, all tables, all snapshots and the transaction state unchanged.
UnsupportedStatementFails ==
    [][HasUnknownKeyword(stmt')
       => /\ IsError(result')
          /\ result'.msg = "Unsupported SQL command"
          /\ tables' = tables
          /\ disk' = disk
          /\ in_transaction' = in_transaction]_vars


----------------------------------------------------------------------------
(* Claims about the effects of INSERT, UPDATE, DELETE and ROLLBACK *)

\* the row has every key column of the index
Covers(row, idx) == \A i \in 1..Len(idx.column_names) : idx.column_names[i] \in DOMAIN row

\* C27: index append on INSERT is restricted to covered indexes.  A successful
\* INSERT leaves an index with a key column the new row omits with exactly the
\* entries it had before; it appends the position of the new row to an index
\* only if the row has every key column of that index.
IndexAppendCovered ==
    [][(IsInsert(stmt', tables) /\ ~IsError(result'))
       => \A n \in DOMAIN tables[stmt'.table].indexes :
            ~Covers(StatementRow(tables[stmt'.table], stmt'), tables[stmt'.table].indexes[n])
            => /\ n \in DOMAIN tables'[stmt'.table].indexes
               /\ tables'[stmt'.table].indexes[n].entries
                      = tables[stmt'.table].indexes[n].entries]_vars

\* the rows of an UPDATE that stopped at row k: the matching rows before k
\* hold the new values, row k and the rows after it are as they were
StoppedAt(rows, k, updates, where_clause) ==
    [i \in 1..Len(rows) |->
        IF i < k /\ Matches(rows[i], where_clause) = "true"
        THEN RowUpdate(rows[i], updates)
        ELSE rows[i]]

\* C28: mid-sweep UPDATE failure.  When an UPDATE raises a uniqueness error at
\* a matching row, the rows matched and processed before it keep their new
\* values in memory, no index has been rebuilt, and the persisted snapshot
\* still holds the rows of before the statement.
MidSweepUpdateFailure ==
    [][(/\ stmt'.cmd = "UPDATE"
        /\ stmt'.table \in DOMAIN tables
        /\ IsError(result')
        /\ result'.msg = "Duplicate value for unique column")
       => /\ disk' = disk
          /\ stmt'.table \in DOMAIN tables'
          /\ tables'[stmt'.table].indexes = tables[stmt'.table].indexes
          /\ \E k \in 1..Len(tables[stmt'.table].rows) :
                /\ tables'[stmt'.table].rows
                       = StoppedAt(tables[stmt'.table].rows, k,
                                   Updates(stmt'.set_clause), stmt'.where_clause)
                /\ \E j \in 1..Len(tables[stmt'.table].rows) :
                       \E u \in 1..Len(Updates(stmt'.set_clause)) :
                          /\ j # k
                          /\ PyEq(RowGet(tables'[stmt'.table].rows[j], Updates(stmt'.set_clause)[u].col),
                                  Updates(stmt'.set_clause)[u].value)]_vars

\* UPDATE t SET v = 3 failed at the second of two rows: the first row holds 3
\* in memory, and the snapshot and the index on v still hold its old value
SweepStoppedMidway ==
    /\ stmt.cmd = "UPDATE"
    /\ IsError(result)
    /\ result.msg = "Duplicate value for unique column"
    /\ TableT \in DOMAIN tables
    /\ TableT \in DOMAIN disk
    /\ Len(tables[TableT].rows) = 2
    /\ tables[TableT].rows[1][ColV] = IntValue(3)
    /\ disk[TableT].rows[1][ColV] = IntValue(1)
    /\ tables[TableT].indexes = disk[TableT].indexes

\* the statement completed without error and had an effect: an UPDATE or a
\* DELETE that reports no row changed nothing
Effective(s, r) ==
    /\ ~IsError(r)
    /\ \/ s.cmd \in {"CREATE TABLE", "INSERT", "CREATE INDEX", "DROP TABLE"}
       \/ s.cmd \in {"UPDATE", "DELETE"} /\ r.kind = "status" /\ r.n > 0

MatchesDelete(row, where_clause) == Matches(row, where_clause) = "true"

\* C30: DELETE removes exactly the matching rows.  After DELETE FROM T [WHERE
\* P] the rows of T are exactly the rows that did not match P, in their
\* original relative order, the reported count is the number of rows that
\* matched, and with no WHERE clause the table is left empty.
DeleteRemovesMatching ==
    [][(stmt'.cmd = "DELETE" /\ stmt'.table \in DOMAIN tables /\ ~IsError(result'))
       => /\ stmt'.table \in DOMAIN tables'
          /\ tables'[stmt'.table].rows
                 = RowsWhere(tables[stmt'.table].rows,
                             LAMBDA r : ~MatchesDelete(r, stmt'.where_clause))
          /\ result'.n = Len(RowsWhere(tables[stmt'.table].rows,
                                       LAMBDA r : MatchesDelete(r, stmt'.where_clause)))
          /\ Len(stmt'.where_clause) = 0 => tables'[stmt'.table].rows = <<>>]_vars

\* DELETE FROM t WHERE id = 1 removed the first of two rows and kept the second
DeletedTheMatchingRow ==
    /\ stmt = DeleteStmt(TableT, WhereId(One))
    /\ result.kind = "status"
    /\ result.n = 1
    /\ TableT \in DOMAIN tables
    /\ Len(tables[TableT].rows) = 1
    /\ tables[TableT].rows[1][ColId] = IntValue(2)


----------------------------------------------------------------------------
(* Claims about frames, ordering and the transaction state *)

\* the statement is an UPDATE or a DELETE, written on one line, of a table of
\* the catalog, whose WHERE test is false for every row
MatchesNoRow(s, t) ==
    /\ s.cmd \in {"UPDATE", "DELETE"}
    /\ s.layout = "line"
    /\ s.table \in DOMAIN t
    /\ \A i \in 1..Len(t[s.table].rows) : Matches(t[s.table].rows[i], s.where_clause) = "false"

\* C31: zero-match UPDATE/DELETE is a no-op.  An UPDATE or DELETE whose WHERE
\* clause matches no row returns a status reporting 0 rows and leaves the rows
\* of the table, the entries of every index and the persisted snapshot
\* unchanged.
ZeroMatchIsNoOp ==
    [][MatchesNoRow(stmt', tables)
       => /\ result'.kind = "status"
          /\ result'.n = 0
          /\ tables' = tables
          /\ disk' = disk]_vars

\* UPDATE t SET v=2 WHERE id=1 matched none of the rows of a table whose rows
\* in memory are not those of its snapshot
NothingMatchedNothingSaved ==
    /\ stmt.cmd = "UPDATE"
    /\ Len(stmt.where_clause) > 0
    /\ result.kind = "status"
    /\ result.n = 0
    /\ TableT \in DOMAIN tables
    /\ TableT \in DOMAIN disk
    /\ tables[TableT].rows # <<>>
    /\ tables[TableT].rows # disk[TableT].rows

\* the statement is a SELECT with an ORDER BY clause over one table of the catalog
IsOrderedSelect(s, t) ==
    /\ s.cmd = "SELECT"
    /\ Len(s.order_clause) > 0
    /\ Len(JoinedTables(s)) = 1
    /\ JoinedTables(s)[1] \in DOMAIN t

\* the rows of the table of the SELECT that pass its WHERE clause, in table order
PassedWhere(s, t) ==
    RowsWhere(t[JoinedTables(s)[1]].rows, LAMBDA r : Matches(r, s.where_clause) = "true")

\* the value a row is ordered by under a column: empty text when it lacks it
OrderValue(row, col) == IF col \in DOMAIN row THEN row[col] ELSE TextValue(<<>>)

\* r1 is strictly before r2 in the tuple of the named columns: at the first
\* column where their values differ, the value of r1 is the smaller one
StrictlyBefore(r1, r2, cols) ==
    \E i \in 1..Len(cols) :
        /\ \A j \in 1..(i - 1) : PyEq(OrderValue(r1, cols[j]), OrderValue(r2, cols[j]))
        /\ ~PyEq(OrderValue(r1, cols[i]), OrderValue(r2, cols[i]))
        /\ Orderable(OrderValue(r1, cols[i]), OrderValue(r2, cols[i]))
        /\ PyLess(OrderValue(r1, cols[i]), OrderValue(r2, cols[i]))

\* the arrangements of the positions 1..n
Arrangements(n) == {f \in [1..n -> 1..n] : \A i, j \in 1..n : f[i] = f[j] => i = j}

\* the rows, taken in the arrangement f, are non-decreasing in the tuple of the
\* named columns, rows that neither precedes the other keeping their order
StableAscending(rows, f, cols) ==
    \A p, q \in 1..Len(rows) :
        p < q => /\ ~StrictlyBefore(rows[f[q]], rows[f[p]], cols)
                 /\ StrictlyBefore(rows[f[p]], rows[f[q]], cols) \/ f[p] < f[q]

\* the result rows are the projection on the requested columns of a stable
\* ascending arrangement of the rows that passed
SortedThenProjected(passed, cols, columns, rows) ==
    \E f \in Arrangements(Len(passed)) :
        /\ StableAscending(passed, f, cols)
        /\ rows = [p \in 1..Len(passed) |-> Restricted(passed[f[p]], columns)]

\* C32: ORDER BY is a stable ascending sort applied after filtering and before
\* projection.  The result of a SELECT with ORDER BY that completes is the
\* projection of a permutation of the rows that passed WHERE, non-decreasing
\* in the tuple of the named columns, rows with equal keys keeping their
\* relative table order; the named columns need not be in the SELECT list.
OrderByIsStableSort ==
    [][(IsOrderedSelect(stmt', tables) /\ result'.kind = "rows")
       => SortedThenProjected(PassedWhere(stmt', tables), CommaList(stmt'.order_clause),
                              RequestedColumns(stmt', tables), result'.rows)]_vars

\* SELECT id FROM t ORDER BY v over the rows (1, 2), (2, 1) returned id 2
\* before id 1
SortedByUnselectedColumn ==
    /\ stmt = SelectStmt(ColId, TableT, <<>>, ColV)
    /\ result.kind = "rows"
    /\ Len(result.rows) = 2
    /\ TableT \in DOMAIN tables
    /\ Len(tables[TableT].rows) = 2
    /\ tables[TableT].rows[1][ColId] = IntValue(1)
    /\ result.rows[1][ColId] = IntValue(2)
    /\ result.rows[2][ColId] = IntValue(1)

\* the statement is one that persists the table it names
Persists(s) == s.cmd \in {"CREATE TABLE", "INSERT", "UPDATE", "DELETE", "CREATE INDEX"}

\* C33: snapshot tracks memory.  Immediately after any CREATE TABLE, INSERT,
\* UPDATE, DELETE or CREATE INDEX that completes without error, the persisted
\* snapshot of the affected table equals its in-memory schema, rows and
\* indexes; and after every successful CREATE TABLE or DROP TABLE the set of
\* persisted snapshots has the same table names as the catalog.
SnapshotTracksMemory ==
    [][/\ (Persists(stmt') /\ ~IsError(result'))
          => /\ stmt'.table \in DOMAIN tables' \cap DOMAIN disk'
             /\ disk'[stmt'.table] = tables'[stmt'.table]
       /\ (stmt'.cmd \in {"CREATE TABLE", "DROP TABLE"} /\ ~IsError(result'))
          => DOMAIN disk' = DOMAIN tables']_vars

\* the statement is one of the transaction commands
IsTransactionCommand(s) == s.cmd \in {"BEGIN", "COMMIT", "ROLLBACK"}

\* C34: idle implies empty log.  In every reachable state, if no transaction
\* is open the transaction log is empty; a statement executed while no
\* transaction is open is not recorded; and BEGIN always leaves the engine
\* with a transaction open and an empty log.
IdleImpliesEmptyLog ==
    /\ (~in_transaction => transaction_log = <<>>)
    /\ [][/\ ~in_transaction' => transaction_log' = <<>>
          /\ (~in_transaction /\ ~IsTransactionCommand(stmt'))
             => (~in_transaction' /\ transaction_log' = transaction_log)
          /\ stmt'.cmd = "BEGIN" => (in_transaction' /\ transaction_log' = <<>>)]_vars

\* an INSERT completed while no transaction was open and the log is empty
InsertedWhileIdle ==
    /\ ~in_transaction
    /\ stmt.cmd = "INSERT"
    /\ ~IsError(result)
    /\ transaction_log = <<>>
    /\ TableT \in DOMAIN tables
    /\ Len(tables[TableT].rows) = 1

\* C35: the transaction commands are accepted in any state.  BEGIN while a
\* transaction is open keeps it open and empties the log; COMMIT while none is
\* open succeeds and reports 0 operations; ROLLBACK while none is open
\* succeeds and reloads every table from its snapshot; none of them raises an
\* error.
CommandsAcceptedInAnyState ==
    [][/\ IsTransactionCommand(stmt') => result'.kind = "status"
       /\ (stmt'.cmd = "BEGIN" /\ in_transaction)
          => (in_transaction' /\ transaction_log' = <<>>)
       /\ (stmt'.cmd = "COMMIT" /\ ~in_transaction)
          => (result'.n = 0 /\ ~in_transaction' /\ tables' = tables)
       /\ (stmt'.cmd = "ROLLBACK" /\ ~in_transaction)
          => /\ ~in_transaction'
             /\ DOMAIN tables' = DOMAIN tables
             /\ \A n \in DOMAIN disk : tables'[n] = disk[n]
             /\ disk' = disk]_vars

\* COMMIT with no transaction open reported 0 operations, over a table whose
\* rows in memory are not those of its snapshot
CommittedWhileIdle ==
    /\ stmt.cmd = "COMMIT"
    /\ result.kind = "status"
    /\ result.n = 0
    /\ ~in_transaction
    /\ TableT \in DOMAIN tables
    /\ tables[TableT].rows # disk[TableT].rows

\* C36: SELECT is read-only.  A SELECT, whether it returns rows or fails,
\* leaves the catalog, every table's rows and indexes, every snapshot and the
\* open or idle state of the transaction exactly as they were.
SelectIsReadOnly ==
    [][stmt'.cmd = "SELECT"
       => /\ result'.kind \in {"rows", "error"}
          /\ tables' = tables
          /\ disk' = disk
          /\ in_transaction' = in_transaction]_vars

\* SELECT id FROM t ORDER BY v returned the one column of a row of two, inside
\* an open transaction, and the table still has both columns
SelectedAndLeftAlone ==
    /\ stmt = SelectStmt(ColId, TableT, <<>>, ColV)
    /\ result.kind = "rows"
    /\ Len(result.rows) = 1
    /\ DOMAIN result.rows[1] = {ColId}
    /\ in_transaction
    /\ TableT \in DOMAIN tables
    /\ DOMAIN tables[TableT].rows[1] = {ColId, ColV}

\* the statement as it reads written on one line
OnOneLine(s) == [s EXCEPT !.layout = "line"]

\* C37: whitespace normalization.  A statement written across several lines
\* with indentation, as the todo adapter writes its UPDATE, is recognized and
\* executed exactly like the same statement on one line: over a table of the
\* catalog it leaves the same result, the same tables and the same snapshots.
SeveralLinesLikeOneLine ==
    [][(stmt'.layout = "lines" /\ stmt'.table \in DOMAIN tables)
       => /\ result' = Execute(tables, disk, OnOneLine(stmt')).result
          /\ tables' = Execute(tables, disk, OnOneLine(stmt')).tables
          /\ disk' = Execute(tables, disk, OnOneLine(stmt')).disk]_vars

====
